---- MODULE Spec2Model ----
(***************************************************************************)
(* A model of krunclaw: the libkrun loader and launcher (libkrun-sys) and  *)
(* the guest image fetcher (krunclaw-runtime).                             *)
(*                                                                         *)
(*   Spec      LibKrun::run on a loaded library, one native call per step  *)
(*   SpecLoad  LibKrun::load over a world of candidate libraries           *)
(*   SpecFetch fetch_ubuntu_image over a small file system                 *)
(*   SpecPure  the functions of run.rs and image.rs, one call each         *)
(***************************************************************************)
EXTENDS Integers, Sequences, FiniteSets, TLC

VARIABLES
    \* ---- LibKrun::run ----
    lib,          \* exports of the library held by the LibKrun value (_lib)
    fns,          \* the optional entries of LibKrunFns: TRUE is Some(fn)
    spec,         \* the RunSpec given to run
    rootExists,   \* Path::new(root path).exists()
    pc,           \* position inside run
    ctx_id,       \* the context handle, once created
    mountIdx,     \* position of the virtiofs_mounts loop
    calls,        \* the native calls made so far, oldest first
    result,       \* the Result of the configuration closure / of run
    \* ---- LibKrun::load ----
    envPath,      \* std::env::var("LIBKRUN_PATH").ok(), as a 0/1-element sequence
    world,        \* what the dynamic loader finds under each name
    loadPc,       \* position inside load
    loadIdx,      \* position in the candidate list
    opened,       \* the names handed to Library::new so far, oldest first
    last_error,   \* load's last_error, as a 0/1-element sequence
    loaded,       \* the Result of load
    \* ---- fetch_ubuntu_image ----
    identity,     \* the image name and --disk override every fetch is given
    fsDir,        \* the parent directory of the target path exists
    fsDisk,       \* the file at the target path: None or Some(content)
    fsTmp,        \* the file at the temporary path: None or Some(content)
    config,       \* the FetchConfig of the fetch under way
    entryFs,      \* the files as the fetch under way found them
    sources,      \* the candidate sources of the fetch under way
    srcIdx,       \* position of the loop over sources
    downloads,    \* the URLs download_to_path was given, oldest first
    fetchPc,      \* position inside fetch_ubuntu_image
    fetchResult,  \* the Result of the fetch
    prevOk,       \* the fetch before the one under way returned Ok
    lastErr,      \* fetch's last_error: None or Some(URL of the failed source)
    report,       \* what the error of an exhausted fetch lists: None until then
    requests,     \* the URLs curl requested in the fetch under way, oldest first
    \* ---- the functions of run.rs and image.rs, called on their own ----
    callee,       \* the function called
    given,        \* its arguments
    ret,          \* what it returned: None until it has
    \* ---- cmd_run, from the parsing of its arguments on ----
    cli,          \* the RunCommand: --publish, --disk-format, the image path
    run_cfg,      \* the RunConfig, as a 0/1-element sequence
    onHost,       \* the workspace and the state directory on the host
    \* ---- run_doctor and detect_libkrun_version ----
    accessor,     \* what krun_get_version returns: None is the null pointer
    detectPc,     \* position inside detect_libkrun_version
    detectIdx,    \* position in its list of built-in names
    probed,       \* the names it handed to Library::new, oldest first
    detected,     \* the Result of detect_libkrun_version
    doctor        \* the DoctorReport, as a 0/1-element sequence

vars == <<lib, fns, spec, rootExists, pc, ctx_id, mountIdx, calls, result,
          envPath, world, loadPc, loadIdx, opened, last_error, loaded,
          identity, fsDir, fsDisk, fsTmp, config, entryFs, sources, srcIdx,
          downloads, fetchPc, fetchResult, prevOk, lastErr, report, requests,
          callee, given, ret,
          cli, run_cfg, onHost,
          accessor, detectPc, detectIdx, probed, detected, doctor>>

fetchVars == <<identity, fsDir, fsDisk, fsTmp, config, entryFs, sources, srcIdx,
               downloads, fetchPc, fetchResult, prevOk, lastErr, report, requests>>

runVars == <<lib, fns, spec, rootExists, pc, ctx_id, mountIdx, calls, result>>

loadVars == <<envPath, world, loadPc, loadIdx, opened, last_error, loaded>>

pureVars == <<callee, given, ret>>

cliVars == <<cli, run_cfg, onHost>>

doctorVars == <<accessor, detectPc, detectIdx, probed, detected, doctor>>

(***************************************************************************)
(* Bounds of the model.                                                    *)
(***************************************************************************)
\* longest virtiofs_mounts list
MaxMounts == 2
\* longest argv and longest env
MaxArgs == 1

(***************************************************************************)
(* Strings are sequences of byte values; Option<T> is a sequence of        *)
(* length 0 (None) or 1 (Some).                                            *)
(***************************************************************************)
None == <<>>

Some(x) == <<x>>

\* "/a", "/b" and a string with an interior NUL byte
StrA == <<47, 97>>

StrB == <<47, 98>>

StrNul == <<47, 0, 97>>

Strs == {StrA, StrNul}

OptStrs == {None} \cup {Some(s) : s \in Strs}

SeqsUpTo(S, n) == UNION {[1..k -> S] : k \in 0..n}

\* CString::new(s): fails exactly when s holds a 0 byte
CStringNew(s) == \A k \in 1..Len(s) : s[k] # 0

RECURSIVE Digits(_)
\* format!("{n}") of an unsigned integer, as ASCII bytes
Digits(n) == IF n < 10 THEN <<48 + n>> ELSE Digits(n \div 10) \o <<48 + (n % 10)>>

(***************************************************************************)
(* Results.  An error carries what its message carries: the kind of        *)
(* message, the name in it and, for a failed native call, the code.        *)
(***************************************************************************)
OkRes == [ok |-> TRUE, kind |-> "ok", what |-> "", code |-> 0]

Err(kind, what, code) == [ok |-> FALSE, kind |-> kind, what |-> what, code |-> code]

(***************************************************************************)
(* The native library: its symbols, and load_symbols.                      *)
(***************************************************************************)
\* the symbols load_symbols resolves with `?`, in the order it resolves them
RequiredSymbols ==
    << "krun_create_ctx", "krun_free_ctx", "krun_set_vm_config", "krun_set_root",
       "krun_add_virtiofs", "krun_set_port_map", "krun_set_workdir", "krun_set_exec",
       "krun_start_enter" >>

OptionalSymbols == {"krun_add_disk2", "krun_set_root_disk_remount"}

RequiredSet == {RequiredSymbols[k] : k \in 1..Len(RequiredSymbols)}

AllSymbols == RequiredSet \cup OptionalSymbols

NoFns == [add_disk2 |-> FALSE, set_root_disk_remount |-> FALSE]

\* a variant of load_symbols that resolves the optional symbols with `?` too
load_symbols_strict(exports) ==
    IF AllSymbols \subseteq exports
    THEN [ok |-> TRUE, what |-> "",
          fns |-> [add_disk2 |-> TRUE, set_root_disk_remount |-> TRUE]]
    ELSE [ok |-> FALSE, what |-> "symbol", fns |-> NoFns]

\* load_symbols(lib): the first required symbol that does not resolve is the
\* error; an optional symbol that does not resolve is recorded as None.
load_symbols(exports) ==
    LET missing == {k \in 1..Len(RequiredSymbols) : RequiredSymbols[k] \notin exports}
    IN  IF missing # {}
        THEN [ok |-> FALSE,
              what |-> RequiredSymbols[CHOOSE k \in missing : \A j \in missing : k <= j],
              fns |-> NoFns]
        ELSE [ok |-> TRUE, what |-> "",
              fns |-> [add_disk2 |-> "krun_add_disk2" \in exports,
                       set_root_disk_remount |-> "krun_set_root_disk_remount" \in exports]]

\* libraries that export every required symbol and any of the optional ones
LaunchLibs == {RequiredSet \cup o : o \in SUBSET OptionalSymbols}

(***************************************************************************)
(* RunSpec values.                                                         *)
(***************************************************************************)
\* the k-th shared folder: tag "t<k>", path "/<k>"
MountAt(k) == << <<116, 48 + k>>, <<47, 48 + k>> >>

CleanRoots ==
    [kind : {"VirtioFs"}, rootfs : {StrA}]
    \cup [kind : {"DiskImage"}, disk_path : {StrA}, disk_format : {"Raw", "Qcow2"},
          read_only : {FALSE}, root_device : {StrB},
          root_fstype : {None}, root_options : {None}]
    \cup [kind : {"DiskImage"}, disk_path : {StrA}, disk_format : {"Qcow2", "Vmdk"},
          read_only : {FALSE}, root_device : {StrB},
          root_fstype : {Some(StrA)}, root_options : {Some(StrB)}]

CleanExecs ==
    [exec_path : {StrA}, argv : SeqsUpTo({StrA}, MaxArgs),
     env : SeqsUpTo({StrB}, MaxArgs), workdir : {StrB}]

PortLists == { <<>>, << <<18789, 18789>>, <<8080, 80>> >> }

CleanSpecs ==
    [cpus : {2}, memory_mib : {2048}, root : CleanRoots,
     virtiofs_mounts : {[k \in 1..n |-> MountAt(k)] : n \in 0..MaxMounts},
     port_map : PortLists, exec : CleanExecs]

\* s, and s with an interior NUL byte put into one of its strings
WithNul(s) ==
    {s}
    \cup (IF s.root.kind = "VirtioFs"
          THEN {[s EXCEPT !.root.rootfs = StrNul]}
          ELSE {[s EXCEPT !.root.disk_path = StrNul],
                [s EXCEPT !.root.root_device = StrNul]}
               \cup (IF s.root.root_fstype = None THEN {}
                     ELSE {[s EXCEPT !.root.root_fstype = Some(StrNul)]})
               \cup (IF s.root.root_options = None THEN {}
                     ELSE {[s EXCEPT !.root.root_options = Some(StrNul)]}))
    \cup {[s EXCEPT !.virtiofs_mounts[k][f] = StrNul] :
            k \in 1..Len(s.virtiofs_mounts), f \in 1..2}
    \cup {[s EXCEPT !.exec.workdir = StrNul], [s EXCEPT !.exec.exec_path = StrNul]}
    \cup {[s EXCEPT !.exec.argv[k] = StrNul] : k \in 1..Len(s.exec.argv)}
    \cup {[s EXCEPT !.exec.env[k] = StrNul] : k \in 1..Len(s.exec.env)}

RunSpecs == UNION {WithNul(s) : s \in CleanSpecs}

\* DiskImageFormat::to_krun_constant
to_krun_constant(format) ==
    CASE format = "Raw" -> 0
      [] format = "Qcow2" -> 1
      [] format = "Vmdk" -> 2

(***************************************************************************)
(* Marshaling helpers of libkrun-sys.                                      *)
(***************************************************************************)
\* a pointer is None (null) or Some(the string it points to)
\* make_c_array(items): the index of the first item CString::new rejects
\* (0 if none), and the pointer vector with its terminating null.
make_c_array(items) ==
    LET bad == {k \in 1..Len(items) : ~CStringNew(items[k])}
    IN  [ok |-> bad = {},
         bad |-> IF bad = {} THEN 0 ELSE CHOOSE k \in bad : \A j \in bad : k <= j,
         pointers |-> [k \in 1..(Len(items) + 1) |->
                          IF k <= Len(items) THEN Some(items[k]) ELSE None]]

\* make_port_map(pairs): "{host}:{guest}" per pair, then make_c_array
make_port_map(pairs) ==
    make_c_array([k \in 1..Len(pairs) |->
                    Digits(pairs[k][1]) \o <<58>> \o Digits(pairs[k][2])])

\* a variant of call_krun that lets a positive code pass
call_krun_negative_only(code, name) ==
    IF code >= 0 THEN OkRes ELSE Err("call_failed", name, code)

\* call_krun(code, name): "{name} failed with {code}" unless code is 0
call_krun(code, name) ==
    IF code = 0 THEN OkRes ELSE Err("call_failed", name, code)

\* a variant of CStringField that takes every string as it is
CStringFieldUnchecked(s, field) == OkRes

\* .context("<field> contains null byte") on CString::new(s)
CStringField(s, field) ==
    IF CStringNew(s) THEN OkRes ELSE Err("null_byte", field, 0)

\* a variant of RequireFn that takes the function to be there
RequireFnUnchecked(available, name) == OkRes

\* self.fns.<name>.ok_or_else(|| anyhow!("libkrun missing <name>; ..."))
RequireFn(available, name) ==
    IF available THEN OkRes ELSE Err("missing_capability", name, 0)

(***************************************************************************)
(* LibKrun::run, one action per native call (with the checks before it).   *)
(***************************************************************************)
\* what the native library may return
CreateRets == {-1, 0, 3}

RetCodes == {0, -22, 1}

\* ctx_id as u32: a non-negative i32 keeps its value, a negative one wraps
AsU32(x) == IF x >= 0 THEN x ELSE x + 65536 * 65536

NativeCall(name, args, rc) ==
    calls' = Append(calls, [name |-> name, args |-> args, rc |-> rc])

\* `?` inside the configuration closure: an error ends the closure
Continue(res, next) ==
    IF res.ok
    THEN pc' = next /\ UNCHANGED result
    ELSE pc' = "free_ctx" /\ result' = res

\* a check that fails before its native call is made
Bail(res) == pc' = "free_ctx" /\ result' = res /\ UNCHANGED calls

\* lines 122-133: the root path must exist
RunCheckRoot ==
    /\ pc = "run"
    /\ IF rootExists
       THEN pc' = "create_ctx" /\ UNCHANGED result
       ELSE /\ pc' = "returned"
            /\ result' = Err("path_missing",
                             IF spec.root.kind = "VirtioFs" THEN "rootfs" ELSE "disk image", 0)
    /\ UNCHANGED <<lib, fns, spec, rootExists, ctx_id, mountIdx, calls>>

\* a variant of CreateCtx that sends a failed creation through the common
\* release path
CreateCtxReleaseAlways ==
    /\ pc = "create_ctx"
    /\ \E rc \in CreateRets :
          /\ NativeCall("krun_create_ctx", <<>>, rc)
          /\ IF rc < 0
             THEN /\ pc' = "free_ctx"
                  /\ result' = Err("create_failed", "krun_create_ctx", rc)
                  /\ UNCHANGED ctx_id
             ELSE /\ pc' = "set_vm_config"
                  /\ ctx_id' = AsU32(rc)
                  /\ UNCHANGED result
    /\ UNCHANGED <<lib, fns, spec, rootExists, mountIdx>>

\* lines 135-139
CreateCtx ==
    /\ pc = "create_ctx"
    /\ \E rc \in CreateRets :
          /\ NativeCall("krun_create_ctx", <<>>, rc)
          /\ IF rc < 0
             THEN /\ pc' = "returned"
                  /\ result' = Err("create_failed", "krun_create_ctx", rc)
                  /\ UNCHANGED ctx_id
             ELSE /\ pc' = "set_vm_config"
                  /\ ctx_id' = AsU32(rc)
                  /\ UNCHANGED result
    /\ UNCHANGED <<lib, fns, spec, rootExists, mountIdx>>

\* lines 142-145
SetVmConfig ==
    /\ pc = "set_vm_config"
    /\ \E rc \in RetCodes :
          /\ NativeCall("krun_set_vm_config", <<ctx_id, spec.cpus, spec.memory_mib>>, rc)
          /\ Continue(call_krun(rc, "krun_set_vm_config"), "root")
    /\ UNCHANGED <<lib, fns, spec, rootExists, ctx_id, mountIdx>>

\* lines 148-155
SetRoot ==
    /\ pc = "root"
    /\ spec.root.kind = "VirtioFs"
    /\ LET c_root == CStringField(spec.root.rootfs, "rootfs")
       IN  IF ~c_root.ok
           THEN Bail(c_root)
           ELSE \E rc \in RetCodes :
                   /\ NativeCall("krun_set_root", <<ctx_id, Some(spec.root.rootfs)>>, rc)
                   /\ Continue(call_krun(rc, "krun_set_root"), "add_virtiofs")
    /\ UNCHANGED <<lib, fns, spec, rootExists, ctx_id, mountIdx>>

\* "rootdisk"
BlockId == <<114, 111, 111, 116, 100, 105, 115, 107>>

\* lines 156-187: both optional functions are required before anything is
\* marshaled or called
AddDisk2 ==
    /\ pc = "root"
    /\ spec.root.kind = "DiskImage"
    /\ LET r == spec.root
           have_add == RequireFn(fns.add_disk2, "krun_add_disk2")
           have_remount == RequireFn(fns.set_root_disk_remount, "krun_set_root_disk_remount")
           block_id == CStringField(BlockId, "internal block id")
           c_disk == CStringField(r.disk_path, "disk path")
       IN  IF ~have_add.ok THEN Bail(have_add)
           ELSE IF ~have_remount.ok THEN Bail(have_remount)
           ELSE IF ~block_id.ok THEN Bail(block_id)
           ELSE IF ~c_disk.ok THEN Bail(c_disk)
           ELSE \E rc \in RetCodes :
                   /\ NativeCall("krun_add_disk2",
                                 <<ctx_id, Some(BlockId), Some(r.disk_path),
                                   to_krun_constant(r.disk_format), r.read_only>>, rc)
                   /\ Continue(call_krun(rc, "krun_add_disk2"), "remount")
    /\ UNCHANGED <<lib, fns, spec, rootExists, ctx_id, mountIdx>>

\* Option<String> -> Option<CString>, with .transpose().context(...)
OptCStringField(opt, field) ==
    IF opt = None THEN OkRes ELSE CStringField(opt[1], field)

\* lines 189-219
SetRootDiskRemount ==
    /\ pc = "remount"
    /\ LET r == spec.root
           c_device == CStringField(r.root_device, "root device")
           c_fstype == OptCStringField(r.root_fstype, "root fstype")
           c_options == OptCStringField(r.root_options, "root options")
       IN  IF ~c_device.ok THEN Bail(c_device)
           ELSE IF ~c_fstype.ok THEN Bail(c_fstype)
           ELSE IF ~c_options.ok THEN Bail(c_options)
           ELSE \E rc \in RetCodes :
                   /\ NativeCall("krun_set_root_disk_remount",
                                 <<ctx_id, Some(r.root_device), r.root_fstype, r.root_options>>,
                                 rc)
                   /\ Continue(call_krun(rc, "krun_set_root_disk_remount"), "add_virtiofs")
    /\ UNCHANGED <<lib, fns, spec, rootExists, ctx_id, mountIdx>>

\* a variant of AddVirtiofs that walks spec.virtiofs_mounts from its end
AddVirtiofsReversed ==
    /\ pc = "add_virtiofs"
    /\ IF mountIdx > Len(spec.virtiofs_mounts)
       THEN pc' = "set_port_map" /\ UNCHANGED <<mountIdx, calls, result>>
       ELSE LET tag == spec.virtiofs_mounts[Len(spec.virtiofs_mounts) + 1 - mountIdx][1]
                host_path == spec.virtiofs_mounts[Len(spec.virtiofs_mounts) + 1 - mountIdx][2]
                c_tag == CStringField(tag, "virtiofs tag")
                c_path == CStringField(host_path, "virtiofs path")
            IN  /\ mountIdx' = mountIdx + 1
                /\ IF ~c_tag.ok THEN Bail(c_tag)
                   ELSE IF ~c_path.ok THEN Bail(c_path)
                   ELSE \E rc \in RetCodes :
                           /\ NativeCall("krun_add_virtiofs",
                                         <<ctx_id, Some(tag), Some(host_path)>>, rc)
                           /\ Continue(call_krun(rc, "krun_add_virtiofs"), "add_virtiofs")
    /\ UNCHANGED <<lib, fns, spec, rootExists, ctx_id>>

\* lines 223-232: one iteration of the loop over spec.virtiofs_mounts, or
\* its end
AddVirtiofs ==
    /\ pc = "add_virtiofs"
    /\ IF mountIdx > Len(spec.virtiofs_mounts)
       THEN pc' = "set_port_map" /\ UNCHANGED <<mountIdx, calls, result>>
       ELSE LET tag == spec.virtiofs_mounts[mountIdx][1]
                host_path == spec.virtiofs_mounts[mountIdx][2]
                c_tag == CStringField(tag, "virtiofs tag")
                c_path == CStringField(host_path, "virtiofs path")
            IN  /\ mountIdx' = mountIdx + 1
                /\ IF ~c_tag.ok THEN Bail(c_tag)
                   ELSE IF ~c_path.ok THEN Bail(c_path)
                   ELSE \E rc \in RetCodes :
                           /\ NativeCall("krun_add_virtiofs",
                                         <<ctx_id, Some(tag), Some(host_path)>>, rc)
                           /\ Continue(call_krun(rc, "krun_add_virtiofs"), "add_virtiofs")
    /\ UNCHANGED <<lib, fns, spec, rootExists, ctx_id>>

\* lines 234-238
SetPortMap ==
    /\ pc = "set_port_map"
    /\ LET port_map == make_port_map(spec.port_map)
       IN  IF ~port_map.ok
           THEN Bail(Err("null_byte", "string", 0))
           ELSE \E rc \in RetCodes :
                   /\ NativeCall("krun_set_port_map", <<ctx_id, port_map.pointers>>, rc)
                   /\ Continue(call_krun(rc, "krun_set_port_map"), "set_workdir")
    /\ UNCHANGED <<lib, fns, spec, rootExists, ctx_id, mountIdx>>

\* lines 240-245
SetWorkdir ==
    /\ pc = "set_workdir"
    /\ LET workdir == CStringField(spec.exec.workdir, "workdir")
       IN  IF ~workdir.ok
           THEN Bail(workdir)
           ELSE \E rc \in RetCodes :
                   /\ NativeCall("krun_set_workdir", <<ctx_id, Some(spec.exec.workdir)>>, rc)
                   /\ Continue(call_krun(rc, "krun_set_workdir"), "set_exec")
    /\ UNCHANGED <<lib, fns, spec, rootExists, ctx_id, mountIdx>>

\* lines 247-257
SetExec ==
    /\ pc = "set_exec"
    /\ LET exec_path == CStringField(spec.exec.exec_path, "exec path")
           argv == make_c_array(spec.exec.argv)
           env == make_c_array(spec.exec.env)
       IN  IF ~exec_path.ok THEN Bail(exec_path)
           ELSE IF ~argv.ok THEN Bail(Err("null_byte", "argv", 0))
           ELSE IF ~env.ok THEN Bail(Err("null_byte", "env", 0))
           ELSE \E rc \in RetCodes :
                   /\ NativeCall("krun_set_exec",
                                 <<ctx_id, Some(spec.exec.exec_path), argv.pointers,
                                   env.pointers>>, rc)
                   /\ Continue(call_krun(rc, "krun_set_exec"), "start_enter")
    /\ UNCHANGED <<lib, fns, spec, rootExists, ctx_id, mountIdx>>

\* a variant of StartEnter that returns from run when krun_start_enter
\* returned 0
StartEnterReturns ==
    /\ pc = "start_enter"
    /\ \E rc \in RetCodes :
          /\ NativeCall("krun_start_enter", <<ctx_id>>, rc)
          /\ pc' = IF rc = 0 THEN "returned" ELSE "free_ctx"
          /\ result' = call_krun(rc, "krun_start_enter")
    /\ UNCHANGED <<lib, fns, spec, rootExists, ctx_id, mountIdx>>

\* lines 259-264: the last step of the closure; whatever krun_start_enter
\* returns, the closure ends here
StartEnter ==
    /\ pc = "start_enter"
    /\ \E rc \in RetCodes :
          /\ NativeCall("krun_start_enter", <<ctx_id>>, rc)
          /\ pc' = "free_ctx"
          /\ result' = call_krun(rc, "krun_start_enter")
    /\ UNCHANGED <<lib, fns, spec, rootExists, ctx_id, mountIdx>>

\* a variant of FreeCtx that releases the context only when the closure
\* succeeded
FreeCtxOnSuccessOnly ==
    /\ pc = "free_ctx"
    /\ pc' = "returned"
    /\ IF result.ok
       THEN \E rc \in RetCodes : NativeCall("krun_free_ctx", <<ctx_id>>, rc)
       ELSE UNCHANGED calls
    /\ UNCHANGED <<lib, fns, spec, rootExists, ctx_id, mountIdx, result>>

\* lines 267-268: free the context, ignore what that returns, return the
\* closure's result
FreeCtx ==
    /\ pc = "free_ctx"
    /\ pc' = "returned"
    /\ \E rc \in RetCodes : NativeCall("krun_free_ctx", <<ctx_id>>, rc)
    /\ UNCHANGED <<lib, fns, spec, rootExists, ctx_id, mountIdx, result>>

\* a library that opens but lacks a required symbol
BrokenLib == AllSymbols \ {"krun_set_exec"}

\* LibKrun::load, lines 104-108, on the library that opened: its symbols
\* are resolved, and a failure there is load's error
LoadOpened ==
    /\ pc = "load"
    /\ LET symbols == load_symbols(lib)
       IN  IF symbols.ok
           THEN pc' = "run" /\ fns' = symbols.fns /\ UNCHANGED result
           ELSE /\ pc' = "returned"
                /\ result' = Err("load_failed", symbols.what, 0)
                /\ UNCHANGED fns
    /\ UNCHANGED <<lib, spec, rootExists, ctx_id, mountIdx, calls>>

\* the path run checks at lines 122-133
RootPath(s) == IF s.root.kind = "VirtioFs" THEN s.root.rootfs ELSE s.root.disk_path

\* Path::new(p).exists() is fs::metadata(p).is_ok(): a path with an interior
\* NUL byte cannot be handed to the system and so does not exist
RunInit ==
    /\ lib \in LaunchLibs \cup {BrokenLib}
    /\ fns = NoFns
    /\ spec \in RunSpecs
    /\ rootExists \in (IF CStringNew(RootPath(spec)) THEN BOOLEAN ELSE {FALSE})
    /\ pc = "load"
    /\ ctx_id = 0
    /\ mountIdx = 1
    /\ calls = <<>>
    /\ result = OkRes

LoadIdle ==
    /\ envPath = None
    /\ world = <<>>
    /\ loadPc = "idle"
    /\ loadIdx = 0
    /\ opened = <<>>
    /\ last_error = None
    /\ loaded = OkRes

FetchIdle ==
    /\ identity = <<>>
    /\ fsDir = FALSE
    /\ fsDisk = None
    /\ fsTmp = None
    /\ config = <<>>
    /\ entryFs = <<>>
    /\ sources = <<>>
    /\ srcIdx = 1
    /\ downloads = <<>>
    /\ fetchPc = "idle"
    /\ fetchResult = OkRes
    /\ prevOk = FALSE
    /\ lastErr = None
    /\ report = None
    /\ requests = <<>>

PureIdle ==
    /\ callee = "none"
    /\ given = <<>>
    /\ ret = <<>>

CliIdle ==
    /\ cli = <<>>
    /\ run_cfg = None
    /\ onHost = <<>>

DoctorIdle ==
    /\ accessor = None
    /\ detectPc = "idle"
    /\ detectIdx = 1
    /\ probed = <<>>
    /\ detected = [ok |-> TRUE, kind |-> "", version |-> <<>>]
    /\ doctor = None

Init == RunInit /\ LoadIdle /\ FetchIdle /\ PureIdle /\ CliIdle /\ DoctorIdle

RunNext ==
    \/ LoadOpened
    \/ RunCheckRoot
    \/ CreateCtx
    \/ SetVmConfig
    \/ SetRoot
    \/ AddDisk2
    \/ SetRootDiskRemount
    \/ AddVirtiofs
    \/ SetPortMap
    \/ SetWorkdir
    \/ SetExec
    \/ StartEnter
    \/ FreeCtx

Next ==
    /\ RunNext
    /\ UNCHANGED loadVars
    /\ UNCHANGED fetchVars
    /\ UNCHANGED pureVars
    /\ UNCHANGED cliVars
    /\ UNCHANGED doctorVars

Spec == Init /\ [][Next]_vars

(***************************************************************************)
(* LibKrun::load over a world of libraries: world[name] is None when       *)
(* Library::new(name) fails and Some(exports) when it opens.               *)
(***************************************************************************)
BuiltinNames == <<"libkrun.so", "libkrun.dylib", "libkrun-efi.so", "libkrun-efi.dylib">>

\* a path LIBKRUN_PATH may name
CustomPath == "/opt/krun/libkrun.so"

LibNames == {BuiltinNames[k] : k \in 1..Len(BuiltinNames)} \cup {CustomPath}

EnvPaths == {None, Some(CustomPath), Some("libkrun-efi.so")}

Worlds == [LibNames -> {None, Some(AllSymbols), Some(RequiredSet), Some(BrokenLib)}]

\* a variant of Candidates that tries the built-in names before the override
CandidatesOverrideLast(env) == BuiltinNames \o env

\* lines 92-101: the override first, when set, then the built-in names
Candidates(env) == env \o BuiltinNames

\* lines 101-113: one iteration of the loop over the candidates
LoadTry ==
    /\ loadPc = "loop"
    /\ loadIdx <= Len(Candidates(envPath))
    /\ LET candidate == Candidates(envPath)[loadIdx]
       IN  /\ opened' = Append(opened, candidate)
           /\ IF world[candidate] # None
              THEN LET symbols == load_symbols(world[candidate][1])
                   IN  /\ loadPc' = "returned"
                       /\ IF symbols.ok
                          THEN /\ loaded' = OkRes
                               /\ lib' = world[candidate][1]
                               /\ fns' = symbols.fns
                          ELSE /\ loaded' = Err("symbols", candidate, 0)
                               /\ UNCHANGED <<lib, fns>>
                       /\ UNCHANGED <<loadIdx, last_error>>
              ELSE /\ last_error' = Some(candidate)
                   /\ loadIdx' = loadIdx + 1
                   /\ UNCHANGED <<loadPc, loaded, lib, fns>>
    /\ UNCHANGED <<envPath, world, spec, rootExists, pc, ctx_id, mountIdx, calls, result>>

\* lines 115-118: every candidate failed to open
LoadExhausted ==
    /\ loadPc = "loop"
    /\ loadIdx > Len(Candidates(envPath))
    /\ loadPc' = "returned"
    /\ loaded' = Err("unable_to_load", IF last_error = None THEN "unknown" ELSE last_error[1], 0)
    /\ UNCHANGED <<envPath, world, loadIdx, opened, last_error>>
    /\ UNCHANGED runVars

RunIdle ==
    /\ lib = {}
    /\ fns = NoFns
    /\ spec = <<>>
    /\ rootExists = FALSE
    /\ pc = "idle"
    /\ ctx_id = 0
    /\ mountIdx = 1
    /\ calls = <<>>
    /\ result = OkRes

LoadInit ==
    /\ envPath \in EnvPaths
    /\ world \in Worlds
    /\ loadPc = "loop"
    /\ loadIdx = 1
    /\ opened = <<>>
    /\ last_error = None
    /\ loaded = OkRes
    /\ RunIdle
    /\ FetchIdle
    /\ PureIdle
    /\ CliIdle
    /\ DoctorIdle

LoadNext ==
    /\ LoadTry \/ LoadExhausted
    /\ UNCHANGED fetchVars
    /\ UNCHANGED pureVars
    /\ UNCHANGED cliVars
    /\ UNCHANGED doctorVars

SpecLoad == LoadInit /\ [][LoadNext]_vars

(***************************************************************************)
(* Properties of LibKrun::load.                                            *)
(***************************************************************************)
\* the candidate order the resolver is to follow
ExpectedCandidates == envPath \o <<"libkrun.so", "libkrun.dylib", "libkrun-efi.so", "libkrun-efi.dylib">>

\* the candidates that open
Openable == {k \in 1..Len(ExpectedCandidates) : world[ExpectedCandidates[k]] # None}

\* the candidates that open and resolve every required symbol
Resolvable ==
    {k \in Openable : RequiredSet \subseteq world[ExpectedCandidates[k]][1]}

\* C7 (as claimed): load returns an error only when no candidate opens with
\* every required symbol resolved; a candidate that opens without one is
\* passed over for the next.
C7_Claimed_NextCandidateOnMissingSymbol ==
    (loadPc = "returned" /\ ~loaded.ok) => Resolvable = {}

Created ==
    \E k \in 1..Len(calls) : calls[k].name = "krun_create_ctx" /\ calls[k].rc >= 0

\* the handle krun_create_ctx gave
Handle ==
    LET k == CHOOSE j \in 1..Len(calls) : calls[j].name = "krun_create_ctx"
    IN  calls[k].rc

FreeCalls == {k \in 1..Len(calls) : calls[k].name = "krun_free_ctx"}

\* the configuration calls and the start call
ConfigCalls ==
    {k \in 1..Len(calls) : calls[k].name \notin {"krun_create_ctx", "krun_free_ctx"}}

\* C1: once krun_create_ctx gave a handle, a run that returns an error has
\* called krun_free_ctx exactly once, on that handle, before returning; and
\* at no moment has it been called more than once or on another handle.
C1_ContextFreedOnFailure ==
    /\ Cardinality(FreeCalls) <= 1
    /\ \A k \in FreeCalls : Created /\ calls[k].args = <<Handle>>
    /\ (pc = "returned" /\ Created /\ ~result.ok) => Cardinality(FreeCalls) = 1

\* a run that failed on an interior NUL byte after its context was created,
\* with a handle other than 0
C1_Witness ==
    /\ pc = "returned"
    /\ Created
    /\ Handle = 3
    /\ result.kind = "null_byte"
    /\ FreeCalls # {}

\* the calls the launch protocol prescribes for a RunSpec, each with the
\* arguments that identify it
ExpectedRootCalls(s) ==
    IF s.root.kind = "VirtioFs"
    THEN << [name |-> "krun_set_root", key |-> Some(s.root.rootfs)] >>
    ELSE << [name |-> "krun_add_disk2", key |-> Some(s.root.disk_path)],
            [name |-> "krun_set_root_disk_remount", key |-> Some(s.root.root_device)] >>

ExpectedPortStrings(s) ==
    [k \in 1..(Len(s.port_map) + 1) |->
        IF k <= Len(s.port_map)
        THEN Some(Digits(s.port_map[k][1]) \o <<58>> \o Digits(s.port_map[k][2]))
        ELSE None]

ExpectedCalls(s) ==
    << [name |-> "krun_create_ctx", key |-> None],
       [name |-> "krun_set_vm_config", key |-> None] >>
    \o ExpectedRootCalls(s)
    \o [k \in 1..Len(s.virtiofs_mounts) |->
          [name |-> "krun_add_virtiofs",
           key |-> <<Some(s.virtiofs_mounts[k][1]), Some(s.virtiofs_mounts[k][2])>>]]
    \o << [name |-> "krun_set_port_map", key |-> ExpectedPortStrings(s)],
          [name |-> "krun_set_workdir", key |-> Some(s.exec.workdir)],
          [name |-> "krun_set_exec", key |-> Some(s.exec.exec_path)],
          [name |-> "krun_start_enter", key |-> None] >>

\* what identifies a call that was made
MadeCall(c) ==
    [name |-> c.name,
     key |-> CASE c.name \in {"krun_set_root", "krun_set_workdir", "krun_set_exec",
                              "krun_set_port_map", "krun_set_root_disk_remount"} -> c.args[2]
               [] c.name = "krun_add_disk2" -> c.args[3]
               [] c.name = "krun_add_virtiofs" -> <<c.args[2], c.args[3]>>
               [] OTHER -> None]

\* the calls made before the context was released
BeforeFree ==
    IF FreeCalls = {} THEN calls
    ELSE SubSeq(calls, 1, (CHOOSE k \in FreeCalls : TRUE) - 1)

\* every configuration call so far returned 0
AllZero == \A k \in ConfigCalls : calls[k].rc = 0

\* C2: while every call returns 0 the calls made are, in order, the
\* prescribed ones (resource sizing, root assignment, one mount per pair in
\* list order, one port-map call with the whole list, working directory,
\* exec, start); and krun_start_enter is preceded by the whole prescribed
\* sequence, every call of which returned 0.
C2_CallOrder ==
    /\ (Created /\ AllZero) =>
          /\ Len(BeforeFree) <= Len(ExpectedCalls(spec))
          /\ \A k \in 1..Len(BeforeFree) : MadeCall(calls[k]) = ExpectedCalls(spec)[k]
    /\ \A k \in 1..Len(calls) :
          calls[k].name = "krun_start_enter" =>
             /\ k = Len(ExpectedCalls(spec))
             /\ \A j \in 2..(k - 1) : calls[j].rc = 0
             /\ \A j \in 1..k : MadeCall(calls[j]) = ExpectedCalls(spec)[j]

\* a disk-image launch with two mounts and two port pairs ran to the end
C2_Witness ==
    /\ pc = "returned"
    /\ result.ok
    /\ spec.root.kind = "DiskImage"
    /\ Len(spec.virtiofs_mounts) = 2
    /\ Len(spec.port_map) = 2

\* C3: a configuration or start call that returned non-zero is the last
\* one: only krun_free_ctx follows it, and the error of the run names that
\* call and carries its code.
C3_FirstFailureAborts ==
    \A k \in ConfigCalls :
        calls[k].rc # 0 =>
           /\ \A j \in (k + 1)..Len(calls) : calls[j].name = "krun_free_ctx"
           /\ pc \in {"free_ctx", "returned"}
           /\ result = Err("call_failed", calls[k].name, calls[k].rc)

\* the second mount call returned 1 and the run has returned
C3_Witness ==
    /\ pc = "returned"
    /\ result = Err("call_failed", "krun_add_virtiofs", 1)
    /\ Cardinality({k \in ConfigCalls : calls[k].name = "krun_add_virtiofs"}) = 2

\* C4: when krun_create_ctx returns a negative code, run has returned an
\* error and that call is the only native call.
C4_CreateFailure ==
    \A k \in 1..Len(calls) :
        (calls[k].name = "krun_create_ctx" /\ calls[k].rc < 0) =>
           /\ Len(calls) = 1
           /\ pc = "returned"
           /\ ~result.ok
           /\ result.kind = "create_failed"

\* krun_create_ctx returned -1 and run has returned
C4_Witness ==
    /\ pc = "returned"
    /\ calls = << [name |-> "krun_create_ctx", args |-> <<>>, rc |-> -1] >>

\* the optional functions a disk-image root needs and the library lacks
MissingCapabilities == OptionalSymbols \ lib

\* C5: with a disk-image root on a loaded library that lacks an optional
\* function, no disk-attach call and no later configuration or start call
\* is made; once resource sizing succeeded the run fails with a
\* missing-capability error naming a function the library lacks, which is
\* not the error of a failed call, and the context is freed.
C5_MissingCapability ==
    (pc # "load" /\ lib # BrokenLib /\ spec.root.kind = "DiskImage"
       /\ MissingCapabilities # {}) =>
       /\ \A k \in ConfigCalls : calls[k].name = "krun_set_vm_config"
       /\ (pc = "returned" /\ ConfigCalls # {} /\ AllZero) =>
             /\ result.kind = "missing_capability"
             /\ result.kind # "call_failed"
             /\ result.what \in MissingCapabilities
             /\ Cardinality(FreeCalls) = 1

\* krun_add_disk2 is there, krun_set_root_disk_remount is not
C5_Witness ==
    /\ pc = "returned"
    /\ spec.root.kind = "DiskImage"
    /\ fns.add_disk2
    /\ ~fns.set_root_disk_remount
    /\ result = Err("missing_capability", "krun_set_root_disk_remount", 0)
    /\ FreeCalls # {}

\* no string of the RunSpec holds a NUL byte
CleanSpec == spec \in CleanSpecs

\* C6: a library with every required symbol and without some optional one
\* loads, with exactly the missing optional entries recorded as absent; a
\* shared-folder launch on it never fails for a missing capability, and
\* when every call returns 0 it makes the whole sequence through
\* krun_start_enter and succeeds.
C6_SharedFolderWithoutBlk ==
    (pc # "load" /\ RequiredSet \subseteq lib /\ ~(OptionalSymbols \subseteq lib)) =>
       /\ result.kind # "load_failed"
       /\ fns.add_disk2 = ("krun_add_disk2" \in lib)
       /\ fns.set_root_disk_remount = ("krun_set_root_disk_remount" \in lib)
       /\ spec.root.kind = "VirtioFs" =>
             /\ result.kind # "missing_capability"
             /\ (pc = "returned" /\ Created /\ AllZero /\ CleanSpec) =>
                   /\ result.ok
                   /\ Len(calls) = Len(ExpectedCalls(spec)) + 1
                   /\ calls[Len(calls) - 1].name = "krun_start_enter"

\* a shared-folder launch on a library without either optional symbol ran
\* to the end
C6_Witness ==
    /\ pc = "returned"
    /\ lib = RequiredSet
    /\ spec.root.kind = "VirtioFs"
    /\ result.ok
    /\ \E k \in 1..Len(calls) : calls[k].name = "krun_start_enter"

(***************************************************************************)
(* The image cache: inspect_image, resolve_sources, fetch_ubuntu_image.    *)
(* One target path is followed: the one the identity resolves to.          *)
(***************************************************************************)
\* char::is_whitespace on the ASCII range (what str::trim strips)
IsWhitespace(c) == c \in {9, 10, 11, 12, 13, 32}

\* is_ascii_alphanumeric, or '-', '_', '.'
IsSafeChar(c) ==
    \/ c \in 48..57
    \/ c \in 65..90
    \/ c \in 97..122
    \/ c \in {45, 95, 46}

\* image_disk_path(image): <cache dir>/<sanitized>/disk.img, or the error
\* for a blank name
image_disk_path(image) ==
    IF \A k \in 1..Len(image) : IsWhitespace(image[k])
    THEN [ok |-> FALSE, path |-> <<>>]
    ELSE [ok |-> TRUE,
          path |-> <<"cache/krunclaw/images",
                     [k \in 1..Len(image) |-> IF IsSafeChar(image[k]) THEN image[k] ELSE 95],
                     "disk.img">>]

\* inspect_image(config): the path, and whether a file is there
inspect_image(image, disk, exists) ==
    LET resolved == IF disk # None THEN [ok |-> TRUE, path |-> disk[1]]
                    ELSE image_disk_path(image)
    IN  [ok |-> resolved.ok, image |-> image, disk_path |-> resolved.path,
         exists |-> resolved.ok /\ exists]

\* std::env::consts::ARCH of the build
HostArch == "x86_64"

\* a variant of ubuntu_suffix_for_arch that takes an unknown identifier
\* for amd64
ubuntu_suffix_for_arch_or_amd64(arch) ==
    CASE arch \in {"aarch64", "arm64"} -> Some("arm64")
      [] arch = "riscv64" -> Some("riscv64")
      [] arch \in {"arm", "armv7l"} -> Some("armhf")
      [] arch = "s390x" -> Some("s390x")
      [] arch \in {"powerpc64le", "ppc64le"} -> Some("ppc64el")
      [] OTHER -> Some("amd64")

\* ubuntu_suffix_for_arch
ubuntu_suffix_for_arch(arch) ==
    CASE arch \in {"x86_64", "amd64"} -> Some("amd64")
      [] arch \in {"aarch64", "arm64"} -> Some("arm64")
      [] arch = "riscv64" -> Some("riscv64")
      [] arch \in {"arm", "armv7l"} -> Some("armhf")
      [] arch = "s390x" -> Some("s390x")
      [] arch \in {"powerpc64le", "ppc64le"} -> Some("ppc64el")
      [] OTHER -> None

\* the first characters of the two pinned sha256 digests: "2b5f", "a407"
Sha256Amd64 == <<50, 98, 53, 102>>

Sha256Arm64 == <<97, 52, 48, 55>>

\* default_lima_ubuntu_sources_for_suffix; a URL is the sequence of the
\* pieces its format string joins
default_lima_ubuntu_sources_for_suffix(suffix) ==
    LET primary ==
            CASE suffix = "amd64" ->
                   Some([url |-> <<"https://cloud-images.ubuntu.com/releases/noble/release-20251213/ubuntu-24.04-server-cloudimg-amd64.img">>,
                         sha256 |-> Some(Sha256Amd64)])
              [] suffix = "arm64" ->
                   Some([url |-> <<"https://cloud-images.ubuntu.com/releases/noble/release-20251213/ubuntu-24.04-server-cloudimg-arm64.img">>,
                         sha256 |-> Some(Sha256Arm64)])
              [] OTHER -> None
        fallback ==
            [url |-> <<"https://cloud-images.ubuntu.com/releases/noble/release/ubuntu-24.04-server-cloudimg-",
                       suffix, ".img">>,
             sha256 |-> None]
    IN  primary \o <<fallback>>

\* a variant of resolve_sources that looks at the release date before the
\* explicit URL
resolve_sources_date_first(cfg) ==
    LET arch == IF cfg.arch # None THEN cfg.arch[1] ELSE HostArch
        suffix == ubuntu_suffix_for_arch(arch)
    IN  IF cfg.ubuntu_date # None /\ suffix # None
        THEN [ok |-> TRUE,
              sources |-> << [url |-> <<"https://cloud-images.ubuntu.com/releases/noble/release-",
                                       cfg.ubuntu_date[1],
                                       "/ubuntu-24.04-server-cloudimg-", suffix[1], ".img">>,
                              sha256 |-> None] >>]
        ELSE IF cfg.url # None
        THEN [ok |-> TRUE, sources |-> << [url |-> <<cfg.url[1]>>, sha256 |-> None] >>]
        ELSE IF suffix = None
        THEN [ok |-> FALSE, sources |-> <<>>]
        ELSE [ok |-> TRUE, sources |-> default_lima_ubuntu_sources_for_suffix(suffix[1])]

\* resolve_sources(config)
resolve_sources(cfg) ==
    IF cfg.url # None
    THEN [ok |-> TRUE, sources |-> << [url |-> <<cfg.url[1]>>, sha256 |-> None] >>]
    ELSE LET arch == IF cfg.arch # None THEN cfg.arch[1] ELSE HostArch
             suffix == ubuntu_suffix_for_arch(arch)
         IN  IF suffix = None
             THEN [ok |-> FALSE, sources |-> <<>>]
             ELSE IF cfg.ubuntu_date # None
             THEN [ok |-> TRUE,
                   sources |-> << [url |-> <<"https://cloud-images.ubuntu.com/releases/noble/release-",
                                            cfg.ubuntu_date[1],
                                            "/ubuntu-24.04-server-cloudimg-", suffix[1], ".img">>,
                                   sha256 |-> None] >>]
             ELSE [ok |-> TRUE, sources |-> default_lima_ubuntu_sources_for_suffix(suffix[1])]

\* u8::to_ascii_lowercase
ToAsciiLower(c) == IF c \in 65..90 THEN c + 32 ELSE c

\* str::eq_ignore_ascii_case
eq_ignore_ascii_case(a, b) ==
    /\ Len(a) = Len(b)
    /\ \A k \in 1..Len(a) : ToAsciiLower(a[k]) = ToAsciiLower(b[k])

(***************************************************************************)
(* Files.  A file is where it came from, whether it is whole, and the      *)
(* first characters of its sha256 digest as shasum prints it.              *)
(***************************************************************************)
\* an artifact that was there before any fetch of the model
OldImage == [origin |-> "old", complete |-> TRUE, digest |-> <<48, 49, 50, 51>>]

\* what an interrupted fetch left at the temporary path
StaleTmp == [origin |-> "stale", complete |-> FALSE, digest |-> <<52, 53, 54, 55>>]

\* what a failed transfer may leave at the temporary path
PartialFile == [origin |-> "download", complete |-> FALSE, digest |-> <<56, 57, 56, 57>>]

\* a whole file that is not the image the mirror published
CorruptedFile == [origin |-> "download", complete |-> TRUE, digest |-> <<102, 102, 102, 102>>]

\* the image a source serves: the pinned digest when the source has one
ServedFile(source) ==
    [origin |-> "download", complete |-> TRUE,
     digest |-> IF source.sha256 # None THEN source.sha256[1] ELSE <<99, 48, 100, 101>>]

Identities ==
    [image : {<<100, 58, 49>>, <<32>>},
     disk : {None, Some(<<"/vm", "ubuntu.img">>)}]

\* architecture identifiers: the ones ubuntu_suffix_for_arch knows, and
\* some it does not
ArchNames ==
    {"x86_64", "amd64", "aarch64", "arm64", "riscv64", "arm", "armv7l", "s390x",
     "powerpc64le", "ppc64le", "mips", "X86_64", ""}

\* every architecture in a plain fetch of the default sources; four of
\* them with a release date or with --force; with an explicit URL, where
\* the architecture is not read, two of them
FetchConfigs ==
    [url : {None},
     ubuntu_date : {None},
     arch : {None} \cup {Some(a) : a \in ArchNames},
     force : {FALSE}]
    \cup
    [url : {None},
     ubuntu_date : {None, Some("20250101")},
     arch : {None, Some("arm64"), Some("riscv64"), Some("mips")},
     force : BOOLEAN]
    \cup
    [url : {Some("https://example.com/custom.img")},
     ubuntu_date : {None, Some("20250101")},
     arch : {None, Some("mips")},
     force : BOOLEAN]

Fs == [dir |-> fsDir, disk |-> fsDisk, tmp |-> fsTmp]

FetchReturn(res) ==
    /\ fetchPc' = "returned"
    /\ fetchResult' = res

Pending == Err("pending", "", 0)

\* neither fetch_ubuntu_image nor ensure_image is under way
BetweenCalls == fetchPc \in {"ready", "returned", "ensured"}

\* fetch_ubuntu_image has been called and ensure_image was not the last
\* call: config, sources and fetchResult are those of a fetch
FetchCalled == fetchPc \notin {"ready", "ensured"}

\* the last fetch that returned returned Ok
LastFetchOk ==
    \/ fetchPc = "returned" /\ fetchResult.ok
    \/ fetchPc = "ensured" /\ prevOk

\* a variant of EnsureImage that creates the cache directory of a missing
\* image
EnsureImageCreatingDir ==
    /\ BetweenCalls
    /\ LET status == inspect_image(identity.image, identity.disk, fsDisk # None)
       IN  /\ fetchResult' = IF ~status.ok THEN Err("empty_image", "", 0)
                             ELSE IF status.exists THEN OkRes
                             ELSE Err("missing", "krunclaw image fetch --image", 0)
           /\ fsDir' = (fsDir \/ (status.ok /\ ~status.exists))
    /\ fetchPc' = "ensured"
    /\ entryFs' = Fs
    /\ downloads' = <<>>
    /\ prevOk' = LastFetchOk
    /\ lastErr' = None
    /\ report' = None
    /\ requests' = <<>>
    /\ UNCHANGED <<identity, fsDisk, fsTmp, config, sources, srcIdx>>

\* ensure_image, lines 74-86: inspect_image, then the status when the
\* artifact is there and the "missing" error when it is not
EnsureImage ==
    /\ BetweenCalls
    /\ LET status == inspect_image(identity.image, identity.disk, fsDisk # None)
       IN  fetchResult' = IF ~status.ok THEN Err("empty_image", "", 0)
                          ELSE IF status.exists THEN OkRes
                          ELSE Err("missing", "krunclaw image fetch --image", 0)
    /\ fetchPc' = "ensured"
    /\ entryFs' = Fs
    /\ downloads' = <<>>
    /\ prevOk' = LastFetchOk
    /\ lastErr' = None
    /\ report' = None
    /\ requests' = <<>>
    /\ UNCHANGED <<identity, fsDir, fsDisk, fsTmp, config, sources, srcIdx>>

\* a variant of FetchBegin without the already-exists check
FetchBeginUnchecked ==
    /\ BetweenCalls
    /\ \E c \in FetchConfigs :
          LET status == inspect_image(identity.image, identity.disk, fsDisk # None)
          IN  /\ config' = [image |-> identity.image, disk |-> identity.disk, url |-> c.url,
                            ubuntu_date |-> c.ubuntu_date, arch |-> c.arch, force |-> c.force]
              /\ IF ~status.ok
                 THEN FetchReturn(Err("empty_image", "", 0))
                 ELSE fetchPc' = "create_dir" /\ fetchResult' = Pending
    /\ entryFs' = Fs
    /\ sources' = <<>>
    /\ srcIdx' = 1
    /\ downloads' = <<>>
    /\ prevOk' = LastFetchOk
    /\ lastErr' = None
    /\ report' = None
    /\ requests' = <<>>
    /\ UNCHANGED <<identity, fsDir, fsDisk, fsTmp>>

\* a variant of FetchBegin in which --force removes the artifact at once
FetchBeginForceRemoves ==
    /\ BetweenCalls
    /\ \E c \in FetchConfigs :
          LET status == inspect_image(identity.image, identity.disk, fsDisk # None)
          IN  /\ config' = [image |-> identity.image, disk |-> identity.disk, url |-> c.url,
                            ubuntu_date |-> c.ubuntu_date, arch |-> c.arch, force |-> c.force]
              /\ fsDisk' = IF status.ok /\ c.force THEN None ELSE fsDisk
              /\ IF ~status.ok
                 THEN FetchReturn(Err("empty_image", "", 0))
                 ELSE IF status.exists /\ ~c.force
                 THEN FetchReturn(Err("already_exists", "", 0))
                 ELSE fetchPc' = "create_dir" /\ fetchResult' = Pending
    /\ entryFs' = Fs
    /\ sources' = <<>>
    /\ srcIdx' = 1
    /\ downloads' = <<>>
    /\ prevOk' = LastFetchOk
    /\ lastErr' = None
    /\ report' = None
    /\ requests' = <<>>
    /\ UNCHANGED <<identity, fsDir, fsTmp>>

\* lines 88-99: a fetch is called; inspect_image, then the already-exists
\* check
FetchBegin ==
    /\ BetweenCalls
    /\ \E c \in FetchConfigs :
          LET status == inspect_image(identity.image, identity.disk, fsDisk # None)
          IN  /\ config' = [image |-> identity.image, disk |-> identity.disk, url |-> c.url,
                            ubuntu_date |-> c.ubuntu_date, arch |-> c.arch, force |-> c.force]
              /\ IF ~status.ok
                 THEN FetchReturn(Err("empty_image", "", 0))
                 ELSE IF status.exists /\ ~c.force
                 THEN FetchReturn(Err("already_exists", "", 0))
                 ELSE fetchPc' = "create_dir" /\ fetchResult' = Pending
    /\ entryFs' = Fs
    /\ sources' = <<>>
    /\ srcIdx' = 1
    /\ downloads' = <<>>
    /\ prevOk' = LastFetchOk
    /\ lastErr' = None
    /\ report' = None
    /\ requests' = <<>>
    /\ UNCHANGED <<identity, fsDir, fsDisk, fsTmp>>

\* lines 101-104: fs::create_dir_all(parent), which may fail
FetchCreateDir ==
    /\ fetchPc = "create_dir"
    /\ \/ /\ fsDir' = TRUE
          /\ fetchPc' = "resolve"
          /\ UNCHANGED fetchResult
       \/ /\ ~fsDir
          /\ FetchReturn(Err("create_dir_failed", "", 0))
          /\ UNCHANGED fsDir
    /\ UNCHANGED <<identity, fsDisk, fsTmp, config, entryFs, sources, srcIdx, downloads, prevOk,
                   lastErr, report, requests>>

\* line 106: resolve_sources(config)?
FetchResolve ==
    /\ fetchPc = "resolve"
    /\ LET resolved == resolve_sources(config)
       IN  IF resolved.ok
           THEN /\ sources' = resolved.sources
                /\ fetchPc' = "remove_stale"
                /\ UNCHANGED fetchResult
           ELSE /\ FetchReturn(Err("unsupported_arch", "", 0))
                /\ UNCHANGED sources
    /\ UNCHANGED <<identity, fsDir, fsDisk, fsTmp, config, entryFs, srcIdx, downloads, prevOk,
                   lastErr, report, requests>>

\* a variant of FetchRemoveStale that leaves the temporary file where it is
FetchRemoveStaleSkipped ==
    /\ fetchPc = "remove_stale"
    /\ fetchPc' = "download"
    /\ UNCHANGED <<identity, fsDir, fsDisk, fsTmp, config, entryFs, sources, srcIdx, downloads,
                   fetchResult, prevOk, lastErr, report, requests>>

\* lines 107-111: a temporary file that is there is removed, which may fail
FetchRemoveStale ==
    /\ fetchPc = "remove_stale"
    /\ \/ /\ fsTmp' = None
          /\ fetchPc' = "download"
          /\ UNCHANGED fetchResult
       \/ /\ fsTmp # None
          /\ FetchReturn(Err("remove_tmp_failed", "", 0))
          /\ UNCHANGED fsTmp
    /\ UNCHANGED <<identity, fsDir, fsDisk, config, entryFs, sources, srcIdx, downloads, prevOk,
                   lastErr, report, requests>>

\* download_to_path, lines 237-238: curl --retry 3.  After a transfer that
\* failed with a transient error (a timeout, HTTP 408, 429, 5xx) curl
\* requests the same URL again, at most this many times
CurlRetries == 3

\* a variant of FetchDownload that passes over the source after the one
\* that failed
FetchDownloadSkipping ==
    /\ fetchPc = "download"
    /\ srcIdx <= Len(sources)
    /\ LET source == sources[srcIdx]
       IN  /\ downloads' = Append(downloads, source.url)
           /\ \E transfers \in 1..(1 + CurlRetries) :
                 requests' = requests \o [k \in 1..transfers |-> source.url]
           /\ \/ /\ fsTmp' \in {Some(ServedFile(source)), Some(CorruptedFile)}
                 /\ fetchPc' = "verify"
                 /\ UNCHANGED <<srcIdx, lastErr>>
              \/ /\ fsTmp' \in {fsTmp, Some(PartialFile)}
                 /\ lastErr' = Some(source.url)
                 /\ srcIdx' = srcIdx + 2
                 /\ UNCHANGED fetchPc
    /\ UNCHANGED <<identity, fsDir, fsDisk, config, entryFs, sources, fetchResult, prevOk,
                   report>>

\* lines 114-115 and 145-147, with download_to_path: curl writes to the
\* temporary path, making one transfer and as many more as it retries;
\* when it fails the loop goes on to the next source
FetchDownload ==
    /\ fetchPc = "download"
    /\ srcIdx <= Len(sources)
    /\ LET source == sources[srcIdx]
       IN  /\ downloads' = Append(downloads, source.url)
           /\ \E transfers \in 1..(1 + CurlRetries) :
                 requests' = requests \o [k \in 1..transfers |-> source.url]
           /\ \/ /\ fsTmp' \in {Some(ServedFile(source)), Some(CorruptedFile)}
                 /\ fetchPc' = "verify"
                 /\ UNCHANGED <<srcIdx, lastErr>>
              \/ /\ fsTmp' \in {fsTmp, Some(PartialFile)}
                 /\ lastErr' = Some(source.url)
                 /\ srcIdx' = srcIdx + 1
                 /\ UNCHANGED fetchPc
    /\ UNCHANGED <<identity, fsDir, fsDisk, config, entryFs, sources, fetchResult, prevOk,
                   report>>

\* verify_sha256(path, expected) on the file at the temporary path: shasum
\* may fail; else its first word is compared with the expected digest
verify_sha256(file, expected, shasum_ok) ==
    IF ~shasum_ok THEN Err("sha256_verification_failed", "shasum failed", 0)
    ELSE IF eq_ignore_ascii_case(file.digest, expected) THEN OkRes
    ELSE Err("sha256_verification_failed", "mismatch", 0)

\* a variant of FetchVerify that publishes whatever the digest is
FetchVerifyUnchecked ==
    /\ fetchPc = "verify"
    /\ fetchPc' = "publish"
    /\ UNCHANGED <<identity, fsDir, fsDisk, fsTmp, config, entryFs, sources, srcIdx, downloads,
                   fetchResult, prevOk, lastErr, report, requests>>

\* lines 117-125: a source with a digest is verified, and a failed
\* verification is returned with `?`
FetchVerify ==
    /\ fetchPc = "verify"
    /\ LET source == sources[srcIdx]
       IN  IF source.sha256 = None
           THEN fetchPc' = "publish" /\ UNCHANGED fetchResult
           ELSE \E shasum_ok \in BOOLEAN :
                   LET verified == verify_sha256(fsTmp[1], source.sha256[1], shasum_ok)
                   IN  IF verified.ok
                       THEN fetchPc' = "publish" /\ UNCHANGED fetchResult
                       ELSE FetchReturn(verified)
    /\ UNCHANGED <<identity, fsDir, fsDisk, fsTmp, config, entryFs, sources, srcIdx, downloads,
                   prevOk, lastErr, report, requests>>

\* lines 127-143: the artifact that is there is removed, the temporary
\* file is renamed into its place, and the status is returned; either
\* file operation may fail
FetchPublish ==
    /\ fetchPc = "publish"
    /\ \/ /\ fsDisk # None
          /\ FetchReturn(Err("remove_existing_failed", "", 0))
          /\ UNCHANGED <<fsDisk, fsTmp>>
       \/ /\ fsDisk' = None
          /\ FetchReturn(Err("rename_failed", "", 0))
          /\ UNCHANGED fsTmp
       \/ /\ fsDisk' = fsTmp
          /\ fsTmp' = None
          /\ FetchReturn(OkRes)
    /\ UNCHANGED <<identity, fsDir, config, entryFs, sources, srcIdx, downloads, prevOk,
                   lastErr, report, requests>>

\* lines 151-160: every source failed; the temporary file is removed, the
\* outcome of the removal being ignored, and the fetch fails
FetchExhausted ==
    /\ fetchPc = "download"
    /\ srcIdx > Len(sources)
    /\ fsTmp' \in {None, fsTmp}
    /\ FetchReturn(Err("all_sources_failed", "", 0))
    /\ report' = Some([attempted |-> [k \in 1..Len(sources) |-> sources[k].url],
                       last_error |-> IF lastErr = None THEN <<"unknown">> ELSE lastErr[1]])
    /\ UNCHANGED <<identity, fsDir, fsDisk, config, entryFs, sources, srcIdx, downloads, prevOk,
                   lastErr, requests>>

FetchInit ==
    /\ identity \in Identities
    /\ fsDisk \in {None, Some(OldImage)}
    /\ fsTmp \in {None, Some(StaleTmp)}
    /\ fsDir \in BOOLEAN
    /\ (fsDisk # None \/ fsTmp # None) => fsDir
    /\ config = <<>>
    /\ entryFs = <<>>
    /\ sources = <<>>
    /\ srcIdx = 1
    /\ downloads = <<>>
    /\ fetchPc = "ready"
    /\ fetchResult = OkRes
    /\ prevOk = FALSE
    /\ lastErr = None
    /\ report = None
    /\ requests = <<>>
    /\ RunIdle
    /\ LoadIdle
    /\ PureIdle
    /\ CliIdle
    /\ DoctorIdle

FetchNext ==
    /\ \/ EnsureImage
       \/ FetchBegin
       \/ FetchCreateDir
       \/ FetchResolve
       \/ FetchRemoveStale
       \/ FetchDownload
       \/ FetchVerify
       \/ FetchPublish
       \/ FetchExhausted
    /\ UNCHANGED runVars
    /\ UNCHANGED loadVars
    /\ UNCHANGED pureVars
    /\ UNCHANGED cliVars
    /\ UNCHANGED doctorVars

SpecFetch == FetchInit /\ [][FetchNext]_vars

(***************************************************************************)
(* Properties of fetch_ubuntu_image.                                       *)
(***************************************************************************)
\* the identity resolves to a target path
TargetResolves == inspect_image(identity.image, identity.disk, FALSE).ok

\* C9: a fetch without force that finds the artifact at the target path
\* has returned "already exists" at once: it has asked for no download and
\* the directory, the artifact and the temporary file are as it found
\* them.  After a fetch that returned Ok the artifact is there, so the next
\* fetch without force is refused in this way.
C9_IdempotentByRefusal ==
    FetchCalled =>
       /\ (TargetResolves /\ entryFs.disk # None /\ ~config.force) =>
             /\ fetchPc = "returned"
             /\ fetchResult.kind = "already_exists"
             /\ downloads = <<>>
             /\ Fs = entryFs
       /\ prevOk => (TargetResolves /\ entryFs.disk # None)
       /\ (fetchPc = "returned" /\ fetchResult.ok) => fsDisk # None

\* a fetch without force right after a fetch that downloaded the artifact
C9_Witness ==
    /\ fetchPc = "returned"
    /\ prevOk
    /\ ~config.force
    /\ fetchResult.kind = "already_exists"
    /\ fsDisk # None
    /\ fsDisk[1].origin = "download"

\* C10 (as claimed): a digest mismatch rejects the source and the next
\* candidate is tried, as for a failed transfer; so a fetch does not return
\* the mismatch while a later source is untried, and a corrupted primary
\* download followed by a successful fallback download is a success.
C10_Claimed_MismatchFallsBack ==
    (fetchPc = "returned" /\ fetchResult = Err("sha256_verification_failed", "mismatch", 0))
       => Len(downloads) = Len(sources)

\* C11 (as claimed): a fetch that returns after trying at least one source,
\* with success, with every source failed, or with a digest mismatch, leaves
\* no file at the temporary path.
C11_Claimed_NoTempFileLeft ==
    (/\ fetchPc = "returned"
     /\ Len(downloads) >= 1
     /\ \/ fetchResult.ok
        \/ fetchResult.kind = "all_sources_failed"
        \/ fetchResult = Err("sha256_verification_failed", "mismatch", 0))
       => fsTmp = None

\* C12: the file at the canonical path is never a partial one; a step
\* that puts a file there is the rename of the publish step, of the file
\* at the temporary path, which this fetch downloaded whole and, when its
\* source has a digest, whose digest equals it; no other step of a fetch
\* writes the canonical path.
C12_OnlyVerifiedPublished ==
    /\ [](fsDisk # None => fsDisk[1].complete)
    /\ [][(fsDisk' # fsDisk /\ fsDisk' # None) =>
             /\ fetchPc = "publish"
             /\ fsTmp # None
             /\ fsDisk' = fsTmp
             /\ fsTmp[1].origin = "download"
             /\ fsTmp[1].complete
             /\ sources[srcIdx].sha256 # None =>
                   eq_ignore_ascii_case(fsTmp[1].digest, sources[srcIdx].sha256[1])]_vars
    /\ [][(fetchPc \in {"download", "verify"}) => (fsDisk' = fsDisk)]_vars

\* a forced fetch replaced the old artifact by the verified primary download
C12_Witness ==
    /\ fetchPc = "returned"
    /\ fetchResult.ok
    /\ entryFs.disk = Some(OldImage)
    /\ Len(sources) = 2
    /\ srcIdx = 1
    /\ fsDisk = Some(ServedFile(sources[1]))

(***************************************************************************)
(* run.rs: the port map of build_run_spec.  A pair is <<host, guest>>.     *)
(***************************************************************************)
\* a variant of port_map that appends every additional pair
port_map_keep_all(gateway_port, additional_publish) ==
    <<<<gateway_port, gateway_port>>>> \o additional_publish

\* build_run_spec, lines 80-85: the gateway pair, then the additional
\* pairs that differ from it
port_map(gateway_port, additional_publish) ==
    LET Differs(publish) == publish # <<gateway_port, gateway_port>>
    IN  <<<<gateway_port, gateway_port>>>> \o SelectSeq(additional_publish, Differs)

(***************************************************************************)
(* run.rs: disk formats.  A path is the sequence of its components, each a *)
(* string of characters.                                                   *)
(***************************************************************************)
\* ".qcow2", ".img", ".vmdk", ".raw"
SuffixQcow2 == <<46, 113, 99, 111, 119, 50>>

SuffixImg == <<46, 105, 109, 103>>

SuffixVmdk == <<46, 118, 109, 100, 107>>

SuffixRaw == <<46, 114, 97, 119>>

\* str::ends_with
ends_with(s, suffix) ==
    /\ Len(suffix) <= Len(s)
    /\ SubSeq(s, Len(s) - Len(suffix) + 1, Len(s)) = suffix

\* str::to_ascii_lowercase
to_ascii_lowercase(s) == [k \in 1..Len(s) |-> ToAsciiLower(s[k])]

\* Path::file_name: the last component, unless the path is empty or ends
\* in ".."
file_name(path) ==
    IF path = <<>> \/ path[Len(path)] = <<46, 46>> THEN None ELSE Some(path[Len(path)])

\* a variant of guess_disk_format that takes ".img" for a raw image
guess_disk_format_img_raw(disk_path) ==
    LET named == file_name(disk_path)
        name == to_ascii_lowercase(IF named = None THEN <<>> ELSE named[1])
    IN  IF ends_with(name, SuffixQcow2) THEN [ok |-> TRUE, format |-> "Qcow2"]
        ELSE IF ends_with(name, SuffixVmdk) THEN [ok |-> TRUE, format |-> "Vmdk"]
        ELSE IF ends_with(name, SuffixRaw) \/ ends_with(name, SuffixImg)
        THEN [ok |-> TRUE, format |-> "Raw"]
        ELSE [ok |-> FALSE, format |-> "cannot auto-detect disk format"]

\* guess_disk_format, lines 181-202
guess_disk_format(disk_path) ==
    LET named == file_name(disk_path)
        name == to_ascii_lowercase(IF named = None THEN <<>> ELSE named[1])
    IN  IF ends_with(name, SuffixQcow2) \/ ends_with(name, SuffixImg)
        THEN [ok |-> TRUE, format |-> "Qcow2"]
        ELSE IF ends_with(name, SuffixVmdk) THEN [ok |-> TRUE, format |-> "Vmdk"]
        ELSE IF ends_with(name, SuffixRaw) THEN [ok |-> TRUE, format |-> "Raw"]
        ELSE [ok |-> FALSE, format |-> "cannot auto-detect disk format"]

\* resolve_disk_format, lines 172-179
resolve_disk_format(format, disk_path) ==
    CASE format = "Raw" -> [ok |-> TRUE, format |-> "Raw"]
      [] format = "Qcow2" -> [ok |-> TRUE, format |-> "Qcow2"]
      [] format = "Vmdk" -> [ok |-> TRUE, format |-> "Vmdk"]
      [] format = "Auto" -> guess_disk_format(disk_path)

(***************************************************************************)
(* run.rs: parse_publish.                                                  *)
(***************************************************************************)
\* u16::MAX
U16_MAX == 65535

\* str::split(sep).collect(): the pieces between the separators
RECURSIVE split(_, _)
split(s, sep) ==
    LET at == {k \in 1..Len(s) : s[k] = sep}
    IN  IF at = {} THEN <<s>>
        ELSE LET first == CHOOSE k \in at : \A j \in at : k <= j
             IN  <<SubSeq(s, 1, first - 1)>> \o split(SubSeq(s, first + 1, Len(s)), sep)

\* the digits of a u16 read left to right, -1 on a character that is no
\* digit and on overflow
RECURSIVE ParseDigits(_, _)
ParseDigits(digits, acc) ==
    IF digits = <<>> THEN acc
    ELSE IF Head(digits) \notin 48..57 THEN -1
    ELSE LET next == acc * 10 + (Head(digits) - 48)
         IN  IF next > U16_MAX THEN -1 ELSE ParseDigits(Tail(digits), next)

\* str::parse::<u16>: an optional '+', then one digit or more
parse_u16(s) ==
    LET digits == IF s # <<>> /\ s[1] = 43 THEN Tail(s) ELSE s
        value == ParseDigits(digits, 0)
    IN  IF digits = <<>> \/ value < 0
        THEN [ok |-> FALSE, value |-> 0]
        ELSE [ok |-> TRUE, value |-> value]

PublishErr(kind) == [ok |-> FALSE, kind |-> kind, host_port |-> 0, guest_port |-> 0]

\* a variant of parse_publish that asks for two parts at least
parse_publish_two_at_least(publish) ==
    LET parts == split(publish, 58)
    IN  IF Len(parts) < 2 THEN PublishErr("invalid publish format")
        ELSE LET host_port == parse_u16(parts[1])
                 guest_port == parse_u16(parts[2])
             IN  IF ~host_port.ok THEN PublishErr("invalid host port")
                 ELSE IF ~guest_port.ok THEN PublishErr("invalid guest port")
                 ELSE [ok |-> TRUE, kind |-> "", host_port |-> host_port.value,
                       guest_port |-> guest_port.value]

\* parse_publish, lines 40-55
parse_publish(publish) ==
    LET parts == split(publish, 58)
    IN  IF Len(parts) # 2 THEN PublishErr("invalid publish format")
        ELSE LET host_port == parse_u16(parts[1])
                 guest_port == parse_u16(parts[2])
             IN  IF ~host_port.ok THEN PublishErr("invalid host port")
                 ELSE IF ~guest_port.ok THEN PublishErr("invalid guest port")
                 ELSE [ok |-> TRUE, kind |-> "", host_port |-> host_port.value,
                       guest_port |-> guest_port.value]

(***************************************************************************)
(* run.rs: parse_disk_format and build_run_spec.                           *)
(***************************************************************************)
\* parse_disk_format, lines 57-65: "auto", "raw", "qcow2" | "qcow", "vmdk"
\* in any case of letters
parse_disk_format(value) ==
    LET lowered == to_ascii_lowercase(value)
    IN  CASE lowered = <<97, 117, 116, 111>> -> [ok |-> TRUE, format |-> "Auto"]
          [] lowered = <<114, 97, 119>> -> [ok |-> TRUE, format |-> "Raw"]
          [] lowered \in {<<113, 99, 111, 119, 50>>, <<113, 99, 111, 119>>} -> [ok |-> TRUE, format |-> "Qcow2"]
          [] lowered = <<118, 109, 100, 107>> -> [ok |-> TRUE, format |-> "Vmdk"]
          [] OTHER -> [ok |-> FALSE, format |-> "unsupported disk format"]

\* Path::display().to_string(): the components joined by '/'
RECURSIVE display(_)
display(path) ==
    IF path = <<>> THEN <<>>
    ELSE IF Len(path) = 1 THEN path[1]
    ELSE path[1] \o <<47>> \o display(Tail(path))

\* the entrypoint script, by its first and its last line:
\* "set -eu" ... "exec openclaw gateway --allow-unconfigured --port <port>"
entrypoint_script(gateway_port) ==
    <<115, 101, 116, 32, 45, 101, 117>> \o <<10>>
       \o <<101, 120, 101, 99, 32, 111, 112, 101, 110, 99, 108, 97, 119, 32, 103, 97, 116, 101, 119, 97, 121, 32, 45, 45, 97, 108, 108, 111, 119, 45, 117, 110, 99, 111, 110, 102, 105, 103, 117, 114, 101, 100, 32, 45, 45, 112, 111, 114, 116, 32>>
       \o Digits(gateway_port) \o <<10>>

\* build_run_spec, lines 131-163: the ExecSpec and the RunSpec
built_run_spec(cfg, disk_format) ==
    [cpus |-> cfg.cpus,
     memory_mib |-> cfg.memory_mib,
     root |-> [kind |-> "DiskImage",
               disk_path |-> display(cfg.disk_image),
               disk_format |-> disk_format,
               read_only |-> FALSE,
               root_device |-> cfg.root_device,
               root_fstype |-> cfg.root_fstype,
               root_options |-> cfg.root_options],
     virtiofs_mounts |-> << <<<<119, 111, 114, 107, 115, 112, 97, 99, 101>>, display(cfg.workspace_dir)>>,
                            <<<<115, 116, 97, 116, 101>>, display(cfg.state_dir)>> >>,
     port_map |-> port_map(cfg.gateway_port, cfg.additional_publish),
     exec |-> [exec_path |-> <<47, 98, 105, 110, 47, 115, 104>>,
               argv |-> <<<<45, 99>>, entrypoint_script(cfg.gateway_port)>>,
               env |-> <<<<72, 79, 77, 69, 61, 47, 114, 111, 111, 116>>,
                         <<85, 83, 69, 82, 61, 114, 111, 111, 116>>,
                         <<83, 72, 69, 76, 76, 61, 47, 98, 105, 110, 47, 115, 104>>,
                         <<80, 65, 84, 72, 61, 47, 117, 115, 114, 47, 108, 111, 99, 97, 108, 47, 115, 98, 105, 110, 58, 47, 117, 115, 114, 47, 108, 111, 99, 97, 108, 47, 98, 105, 110, 58, 47, 117, 115, 114, 47, 115, 98, 105, 110, 58, 47, 117, 115, 114, 47, 98, 105, 110, 58, 47, 115, 98, 105, 110, 58, 47, 98, 105, 110>>>>,
               workdir |-> <<47>>]]

\* build_run_spec, lines 67-78: the checks in their order.  The host facts
\* are whether the disk image and the workspace exist and whether the
\* state directory is there or can be created
build_run_spec(cfg, disk_exists, workspace_exists, state_dir_ok) ==
    IF ~disk_exists
    THEN [ok |-> FALSE, kind |-> "disk image path does not exist", path |-> cfg.disk_image]
    ELSE IF ~workspace_exists
    THEN [ok |-> FALSE, kind |-> "workspace path does not exist", path |-> cfg.workspace_dir]
    ELSE IF ~state_dir_ok
    THEN [ok |-> FALSE, kind |-> "failed to create state dir", path |-> cfg.state_dir]
    ELSE LET disk_format == resolve_disk_format(cfg.disk_format, cfg.disk_image)
         IN  IF ~disk_format.ok
             THEN [ok |-> FALSE, kind |-> "cannot auto-detect disk format",
                   path |-> cfg.disk_image]
             ELSE [ok |-> TRUE, kind |-> "", path |-> <<>>,
                   spec |-> built_run_spec(cfg, disk_format.format)]

(***************************************************************************)
(* main.rs and run.rs: cmd_run from the parsing of its arguments on, and   *)
(* run_openclaw: the RunConfig is parsed, the RunSpec is built, the        *)
(* library is loaded, the guest is run.                                    *)
(***************************************************************************)
\* most --publish options of a command line
MaxCliPublish == 2

\* "8080:80", "8080", "x:1", "1:65536"
CliPublishTexts ==
    {<<56, 48, 56, 48, 58, 56, 48>>,
     <<56, 48, 56, 48>>,
     <<120, 58, 49>>,
     <<49, 58, 54, 53, 53, 51, 54>>}

\* "auto", "RAW", "qcow", "zip"
CliDiskFormats ==
    {<<97, 117, 116, 111>>,
     <<82, 65, 87>>,
     <<113, 99, 111, 119>>,
     <<122, 105, 112>>}

\* "c/disk.img", "a.VMDK", "a.bin"
CliDiskImages ==
    {<<<<99>>, <<100, 105, 115, 107, 46, 105, 109, 103>>>>,
     <<<<97, 46, 86, 77, 68, 75>>>>,
     <<<<97, 46, 98, 105, 110>>>>}

\* the RunCommand, with the path ensure_image answered for the disk image
RunCommands ==
    [cpus : {2}, memory_mib : {2048}, port : {18789},
     publish : SeqsUpTo(CliPublishTexts, MaxCliPublish),
     disk_image : CliDiskImages,
     disk_format : CliDiskFormats,
     root_device : {<<47, 100, 101, 118, 47, 118, 100, 97, 49>>},
     root_fstype : {<<65, 117, 116, 111>>, <<101, 120, 116, 52>>},
     root_options : {None},
     cwd : {<<<<>>, <<119>>>>},
     state_dir : {<<<<>>, <<115>>>>}]

\* the host: the workspace is there or not; the state directory is there,
\* or not yet, or cannot be created
Hosts == [workspace_exists : BOOLEAN, state_dir : {"present", "absent", "uncreatable"}]

\* cmd_run, lines 176-199: every --publish is parsed in order, then the
\* --disk-format token; the first failure is cmd_run's error
CmdRunParse ==
    /\ pc = "parse"
    /\ LET parsed == [k \in 1..Len(cli.publish) |-> parse_publish(cli.publish[k])]
           failed == {k \in 1..Len(parsed) : ~parsed[k].ok}
           disk_format == parse_disk_format(cli.disk_format)
       IN  IF failed # {}
           THEN /\ pc' = "returned"
                /\ result' = Err(parsed[CHOOSE k \in failed : \A j \in failed : k <= j].kind, "", 0)
                /\ UNCHANGED run_cfg
           ELSE IF ~disk_format.ok
           THEN /\ pc' = "returned"
                /\ result' = Err(disk_format.format, "", 0)
                /\ UNCHANGED run_cfg
           ELSE /\ pc' = "build"
                /\ run_cfg' = Some([cpus |-> cli.cpus,
                                    memory_mib |-> cli.memory_mib,
                                    disk_image |-> cli.disk_image,
                                    disk_format |-> disk_format.format,
                                    root_device |-> cli.root_device,
                                    root_fstype |->
                                        IF to_ascii_lowercase(cli.root_fstype) = <<97, 117, 116, 111>>
                                        THEN Some(<<97, 117, 116, 111>>)
                                        ELSE Some(cli.root_fstype),
                                    root_options |-> cli.root_options,
                                    workspace_dir |-> cli.cwd,
                                    state_dir |-> cli.state_dir,
                                    gateway_port |-> cli.port,
                                    additional_publish |->
                                        [k \in 1..Len(parsed) |->
                                            <<parsed[k].host_port, parsed[k].guest_port>>]])
                /\ UNCHANGED result
    /\ UNCHANGED <<lib, fns, spec, rootExists, ctx_id, mountIdx, calls, cli, onHost>>

\* a variant of StateDirReached for a build_run_spec that makes the state
\* directory first
StateDirReachedFirst == TRUE

\* create_dir_all(state_dir) of build_run_spec, lines 71-76, is reached
\* when the two paths before it exist
StateDirReached == rootExists /\ onHost.workspace_exists

\* the error of build_run_spec: its message and the path the message shows
BuildErr(built) ==
    [ok |-> FALSE, kind |-> built.kind, what |-> "", code |-> 0, path |-> built.path]

\* a variant of BuildRunSpec for a run_openclaw that loads the library
\* before it builds the RunSpec
BuildRunSpecAfterLoad ==
    /\ pc = "build"
    /\ LET built == build_run_spec(run_cfg[1], rootExists, onHost.workspace_exists,
                                   onHost.state_dir # "uncreatable")
       IN  IF built.ok
           THEN pc' = "load" /\ spec' = built.spec /\ UNCHANGED <<result, fns>>
           ELSE /\ pc' = "returned"
                /\ result' = BuildErr(built)
                /\ fns' = load_symbols(lib).fns
                /\ UNCHANGED spec
    /\ onHost' = IF StateDirReached /\ onHost.state_dir = "absent"
                 THEN [onHost EXCEPT !.state_dir = "present"]
                 ELSE onHost
    /\ UNCHANGED <<lib, rootExists, ctx_id, mountIdx, calls, cli, run_cfg>>

\* run_openclaw, line 167: build_run_spec(config)?, before LibKrun::load()
BuildRunSpec ==
    /\ pc = "build"
    /\ LET built == build_run_spec(run_cfg[1], rootExists, onHost.workspace_exists,
                                   onHost.state_dir # "uncreatable")
       IN  IF built.ok
           THEN pc' = "load" /\ spec' = built.spec /\ UNCHANGED result
           ELSE pc' = "returned" /\ result' = BuildErr(built) /\ UNCHANGED spec
    /\ onHost' = IF StateDirReached /\ onHost.state_dir = "absent"
                 THEN [onHost EXCEPT !.state_dir = "present"]
                 ELSE onHost
    /\ UNCHANGED <<lib, fns, rootExists, ctx_id, mountIdx, calls, cli, run_cfg>>

CliInit ==
    /\ cli \in RunCommands
    /\ onHost \in Hosts
    /\ run_cfg = None
    /\ lib \in LaunchLibs \cup {BrokenLib}
    /\ fns = NoFns
    /\ spec = <<>>
    /\ rootExists \in BOOLEAN
    /\ pc = "parse"
    /\ ctx_id = 0
    /\ mountIdx = 1
    /\ calls = <<>>
    /\ result = OkRes
    /\ LoadIdle
    /\ FetchIdle
    /\ PureIdle
    /\ DoctorIdle

CliNext ==
    /\ \/ CmdRunParse
       \/ BuildRunSpec
       \/ LoadOpened /\ UNCHANGED cliVars
       \/ RunCheckRoot /\ UNCHANGED cliVars
       \/ CreateCtx /\ UNCHANGED cliVars
       \/ SetVmConfig /\ UNCHANGED cliVars
       \/ SetRoot /\ UNCHANGED cliVars
       \/ AddDisk2 /\ UNCHANGED cliVars
       \/ SetRootDiskRemount /\ UNCHANGED cliVars
       \/ AddVirtiofs /\ UNCHANGED cliVars
       \/ SetPortMap /\ UNCHANGED cliVars
       \/ SetWorkdir /\ UNCHANGED cliVars
       \/ SetExec /\ UNCHANGED cliVars
       \/ StartEnter /\ UNCHANGED cliVars
       \/ FreeCtx /\ UNCHANGED cliVars
    /\ UNCHANGED loadVars
    /\ UNCHANGED fetchVars
    /\ UNCHANGED pureVars
    /\ UNCHANGED doctorVars

SpecCli == CliInit /\ [][CliNext]_vars

(***************************************************************************)
(* doctor.rs and lib.rs: run_doctor and detect_libkrun_version, on the     *)
(* host and with the LIBKRUN_PATH LibKrun::load was called with.           *)
(***************************************************************************)
\* libraries of a host: one with everything, one with the version accessor
\* and nothing else, one with the launch symbols and no accessor
VersionOnlyLib == {"krun_get_version"}

FullLib == AllSymbols \cup VersionOnlyLib

DoctorWorlds == [LibNames -> {None, Some(FullLib), Some(VersionOnlyLib), Some(AllSymbols)}]

\* what the accessor may return: the null pointer, "1.9", and a string
\* that is not UTF-8 (the bytes 0x31 0xFF)
Accessors == {None, Some(<<49, 46, 57>>), Some(<<49, 255>>)}

\* CStr::to_string_lossy, on ASCII bytes and the byte 0xFF: a byte that
\* can be in no UTF-8 sequence becomes U+FFFD
to_string_lossy(bytes) ==
    [k \in 1..Len(bytes) |-> IF bytes[k] < 128 THEN bytes[k] ELSE 65533]

\* a variant of get_version that resolves the launch symbols first
get_version_after_symbols(exports, ptr) ==
    IF ~load_symbols(exports).ok \/ "krun_get_version" \notin exports
    THEN [ok |-> FALSE, kind |-> "krun_get_version symbol missing", version |-> <<>>]
    ELSE IF ptr = None
    THEN [ok |-> TRUE, kind |-> "", version |-> <<117, 110, 107, 110, 111, 119, 110>>]
    ELSE [ok |-> TRUE, kind |-> "", version |-> to_string_lossy(ptr[1])]

\* lines 361-372 and 378-391: the accessor is resolved and called on the
\* library that opened
get_version(exports, ptr) ==
    IF "krun_get_version" \notin exports
    THEN [ok |-> FALSE, kind |-> "krun_get_version symbol missing", version |-> <<>>]
    ELSE IF ptr = None
    THEN [ok |-> TRUE, kind |-> "", version |-> <<117, 110, 107, 110, 111, 119, 110>>]
    ELSE [ok |-> TRUE, kind |-> "", version |-> to_string_lossy(ptr[1])]

\* doctor.rs, lines 24-39: the report run_doctor makes of what
\* detect_libkrun_version returned
DoctorReport(res) ==
    [libkrun_loadable |-> res.ok,
     libkrun_version |-> IF res.ok THEN Some(res.version) ELSE None,
     rootfs_exists |-> rootExists,
     issues |-> (IF rootExists THEN <<>> ELSE <<"rootfs not found">>)
                \o (IF res.ok THEN <<>> ELSE <<"unable to load libkrun">>)]

\* detect_libkrun_version returns to run_doctor
DetectReturn(res) ==
    /\ detectPc' = "returned"
    /\ detected' = res
    /\ doctor' = Some(DoctorReport(res))

\* doctor.rs, lines 14-25: run_doctor, up to its call of
\* detect_libkrun_version with LIBKRUN_PATH
RunDoctor ==
    /\ loadPc = "returned"
    /\ detectPc = "ready"
    /\ detectPc' = IF envPath # None THEN "custom" ELSE "loop"
    /\ UNCHANGED <<accessor, detectIdx, probed, detected, doctor>>

\* lines 351-353 and 378-391: the path given is opened, and nothing else
DetectCustom ==
    /\ detectPc = "custom"
    /\ probed' = Append(probed, envPath[1])
    /\ IF world[envPath[1]] = None
       THEN DetectReturn([ok |-> FALSE, kind |-> "failed to open libkrun", version |-> <<>>])
       ELSE DetectReturn(get_version(world[envPath[1]][1], accessor))
    /\ UNCHANGED <<accessor, detectIdx>>

\* lines 354-374: one iteration of the loop over the built-in names
DetectTry ==
    /\ detectPc = "loop"
    /\ detectIdx <= Len(BuiltinNames)
    /\ LET candidate == BuiltinNames[detectIdx]
       IN  /\ probed' = Append(probed, candidate)
           /\ IF world[candidate] # None
              THEN DetectReturn(get_version(world[candidate][1], accessor)) /\ UNCHANGED detectIdx
              ELSE detectIdx' = detectIdx + 1 /\ UNCHANGED <<detectPc, detected, doctor>>
    /\ UNCHANGED accessor

\* line 375: none of the built-in names opened
DetectExhausted ==
    /\ detectPc = "loop"
    /\ detectIdx > Len(BuiltinNames)
    /\ DetectReturn([ok |-> FALSE, kind |-> "unable to load libkrun to detect version",
                     version |-> <<>>])
    /\ UNCHANGED <<accessor, detectIdx, probed>>

DoctorInit ==
    /\ envPath \in EnvPaths
    /\ world \in DoctorWorlds
    /\ accessor \in Accessors
    /\ loadPc = "loop"
    /\ loadIdx = 1
    /\ opened = <<>>
    /\ last_error = None
    /\ loaded = OkRes
    /\ detectPc = "ready"
    /\ detectIdx = 1
    /\ probed = <<>>
    /\ detected = [ok |-> TRUE, kind |-> "", version |-> <<>>]
    /\ doctor = None
    /\ lib = {}
    /\ fns = NoFns
    /\ spec = <<>>
    /\ rootExists \in BOOLEAN
    /\ pc = "idle"
    /\ ctx_id = 0
    /\ mountIdx = 1
    /\ calls = <<>>
    /\ result = OkRes
    /\ FetchIdle
    /\ PureIdle
    /\ CliIdle

DoctorNext ==
    /\ \/ LoadTry /\ UNCHANGED doctorVars
       \/ LoadExhausted /\ UNCHANGED doctorVars
       \/ RunDoctor /\ UNCHANGED runVars /\ UNCHANGED loadVars
       \/ DetectCustom /\ UNCHANGED runVars /\ UNCHANGED loadVars
       \/ DetectTry /\ UNCHANGED runVars /\ UNCHANGED loadVars
       \/ DetectExhausted /\ UNCHANGED runVars /\ UNCHANGED loadVars
    /\ UNCHANGED fetchVars
    /\ UNCHANGED pureVars
    /\ UNCHANGED cliVars

SpecDoctor == DoctorInit /\ [][DoctorNext]_vars

(***************************************************************************)
(* The functions of image.rs and run.rs, each called once on an argument   *)
(* drawn from a bounded set.                                               *)
(***************************************************************************)
\* longest image name given to image_disk_path
MaxNameLen == 3

ResolveInputs ==
    [url : {None, Some("https://example.com/custom.img")},
     ubuntu_date : {None, Some("20250101")},
     arch : {None} \cup {Some(a) : a \in ArchNames}]

\* characters of an image name: '.', '/', ' ', tab, 'a', 'Z', '7', ':', '-',
\* '_', e-acute
NameChars == {46, 47, 32, 9, 97, 90, 55, 58, 45, 95, 233}

ImageNames == SeqsUpTo(NameChars, MaxNameLen)

\* longest additional_publish list given to build_run_spec
MaxPublish == 3

PublishPairs == {<<18789, 18789>>, <<8080, 80>>, <<80, 80>>, <<8080, 8080>>}

PortMapInputs ==
    [gateway_port : {18789, 8080, 80},
     additional_publish : SeqsUpTo(PublishPairs, MaxPublish)]

Call_resolve_sources ==
    /\ callee = "resolve_sources"
    /\ ret = None
    /\ ret' = Some(resolve_sources(given))
    /\ UNCHANGED <<callee, given>>

Call_image_disk_path ==
    /\ callee = "image_disk_path"
    /\ ret = None
    /\ ret' = Some(image_disk_path(given))
    /\ UNCHANGED <<callee, given>>

\* file-name stems: "", "a", "A.img", "d.raw"
NameStems == {<<>>, <<97>>, <<65, 46, 105, 109, 103>>, <<100, 46, 114, 97, 119>>}

\* file-name endings: ".qcow2", ".img", ".vmdk", ".raw", ".IMG", ".Qcow2",
\* ".VMDK", ".bin", "", "img", ".img.gz", "."
NameEndings ==
    {<<46, 113, 99, 111, 119, 50>>,
     <<46, 105, 109, 103>>,
     <<46, 118, 109, 100, 107>>,
     <<46, 114, 97, 119>>,
     <<46, 73, 77, 71>>,
     <<46, 81, 99, 111, 119, 50>>,
     <<46, 86, 77, 68, 75>>,
     <<46, 98, 105, 110>>,
     <<>>,
     <<105, 109, 103>>,
     <<46, 105, 109, 103, 46, 103, 122>>,
     <<46>>}

\* disk paths: a file name alone, or under a directory "d.qcow2", or the
\* directory followed by ".."
DiskPaths ==
    LET names == {stem \o ending : stem \in NameStems, ending \in NameEndings}
        dir == <<100, 46, 113, 99, 111, 119, 50>>
    IN  {<<name>> : name \in names} \cup {<<dir, name>> : name \in names}
           \cup {<<dir, <<46, 46>>>>}

DiskFormatInputs == [format : {"Auto", "Raw", "Qcow2", "Vmdk"}, disk_path : DiskPaths]

Call_resolve_disk_format ==
    /\ callee = "resolve_disk_format"
    /\ ret = None
    /\ ret' = Some(resolve_disk_format(given.format, given.disk_path))
    /\ UNCHANGED <<callee, given>>

\* most parts, separated by ':', of a string given to parse_publish
MaxParts == 3

\* the parts: "", "0", "80", "18793", "65535", "65536", "99999", "+80",
\* "-1", "8a", " 80", "080", "+"
PartTexts ==
    {<<>>,
     <<48>>,
     <<56, 48>>,
     <<49, 56, 55, 57, 51>>,
     <<54, 53, 53, 51, 53>>,
     <<54, 53, 53, 51, 54>>,
     <<57, 57, 57, 57, 57>>,
     <<43, 56, 48>>,
     <<45, 49>>,
     <<56, 97>>,
     <<32, 56, 48>>,
     <<48, 56, 48>>,
     <<43>>}

RECURSIVE JoinParts(_)
JoinParts(parts) ==
    IF Len(parts) = 1 THEN parts[1]
    ELSE parts[1] \o <<58>> \o JoinParts(Tail(parts))

PublishTexts == {JoinParts(parts) : parts \in SeqsUpTo(PartTexts, MaxParts) \ {<<>>}}

Call_parse_publish ==
    /\ callee = "parse_publish"
    /\ ret = None
    /\ ret' = Some(parse_publish(given))
    /\ UNCHANGED <<callee, given>>

Call_port_map ==
    /\ callee = "port_map"
    /\ ret = None
    /\ ret' = Some(port_map(given.gateway_port, given.additional_publish))
    /\ UNCHANGED <<callee, given>>

PureInit ==
    /\ \/ callee = "resolve_sources" /\ given \in ResolveInputs
       \/ callee = "image_disk_path" /\ given \in ImageNames
       \/ callee = "port_map" /\ given \in PortMapInputs
       \/ callee = "parse_publish" /\ given \in PublishTexts
       \/ callee = "resolve_disk_format" /\ given \in DiskFormatInputs
    /\ ret = None
    /\ RunIdle
    /\ LoadIdle
    /\ FetchIdle
    /\ CliIdle
    /\ DoctorIdle

PureNext ==
    /\ \/ Call_resolve_sources
       \/ Call_image_disk_path
       \/ Call_port_map
       \/ Call_parse_publish
       \/ Call_resolve_disk_format
    /\ UNCHANGED runVars
    /\ UNCHANGED loadVars
    /\ UNCHANGED fetchVars
    /\ UNCHANGED cliVars
    /\ UNCHANGED doctorVars

SpecPure == PureInit /\ [][PureNext]_vars

(***************************************************************************)
(* Properties of the functions.                                            *)
(***************************************************************************)
\* the Ubuntu suffix documented for each architecture identifier
DocumentedSuffix ==
    [a \in {"x86_64", "amd64", "aarch64", "arm64", "riscv64", "arm", "armv7l", "s390x",
            "powerpc64le", "ppc64le"} |->
        CASE a \in {"x86_64", "amd64"} -> "amd64"
          [] a \in {"aarch64", "arm64"} -> "arm64"
          [] a = "riscv64" -> "riscv64"
          [] a \in {"arm", "armv7l"} -> "armhf"
          [] a = "s390x" -> "s390x"
          [] a \in {"powerpc64le", "ppc64le"} -> "ppc64el"]

\* the architecture a configuration resolves to
ResolvedArch(cfg) == IF cfg.arch # None THEN cfg.arch[1] ELSE HostArch

LatestReleaseSource(suffix) ==
    [url |-> <<"https://cloud-images.ubuntu.com/releases/noble/release/ubuntu-24.04-server-cloudimg-",
               suffix, ".img">>,
     sha256 |-> None]

DatedReleaseSource(date, suffix) ==
    [url |-> <<"https://cloud-images.ubuntu.com/releases/noble/release-", date,
               "/ubuntu-24.04-server-cloudimg-", suffix, ".img">>,
     sha256 |-> None]

\* resolve_sources was called on a configuration without explicit URL or
\* release date whose architecture is supported
DefaultSourcesCase ==
    /\ callee = "resolve_sources"
    /\ ret # None
    /\ given.url = None
    /\ given.ubuntu_date = None
    /\ ResolvedArch(given) \in DOMAIN DocumentedSuffix

\* C13 (as claimed): for every supported architecture the default list is
\* two sources, a primary with a digest and then the latest-release mirror
\* without one.
C13_Claimed_TwoDefaultSources ==
    DefaultSourcesCase =>
       /\ ret[1].ok
       /\ Len(ret[1].sources) = 2
       /\ ret[1].sources[1].sha256 # None
       /\ ret[1].sources[2] = LatestReleaseSource(DocumentedSuffix[ResolvedArch(given)])

\* C13 (amended): an explicit URL is the only source, without digest; else
\* a release date gives the one dated URL of the resolved architecture,
\* without digest; else amd64 and arm64 give the pinned primary with its
\* digest and then the latest-release mirror without one, and every other
\* supported architecture gives the latest-release mirror alone.
C13_SourcesResolved ==
    (callee = "resolve_sources" /\ ret # None) =>
       LET arch == ResolvedArch(given)
           out == ret[1]
       IN  IF given.url # None
           THEN out.ok /\ out.sources = << [url |-> <<given.url[1]>>, sha256 |-> None] >>
           ELSE IF arch \notin DOMAIN DocumentedSuffix
           THEN ~out.ok
           ELSE IF given.ubuntu_date # None
           THEN /\ out.ok
                /\ out.sources = << DatedReleaseSource(given.ubuntu_date[1], DocumentedSuffix[arch]) >>
           ELSE IF DocumentedSuffix[arch] \in {"amd64", "arm64"}
           THEN /\ out.ok
                /\ Len(out.sources) = 2
                /\ out.sources[1].url =
                      <<IF DocumentedSuffix[arch] = "amd64"
                        THEN "https://cloud-images.ubuntu.com/releases/noble/release-20251213/ubuntu-24.04-server-cloudimg-amd64.img"
                        ELSE "https://cloud-images.ubuntu.com/releases/noble/release-20251213/ubuntu-24.04-server-cloudimg-arm64.img">>
                /\ out.sources[1].sha256 =
                      Some(IF DocumentedSuffix[arch] = "amd64" THEN Sha256Amd64 ELSE Sha256Arm64)
                /\ out.sources[2] = LatestReleaseSource(DocumentedSuffix[arch])
           ELSE /\ out.ok
                /\ out.sources = << LatestReleaseSource(DocumentedSuffix[arch]) >>

\* the default list for riscv64 is the latest-release mirror alone
C13_Witness ==
    /\ callee = "resolve_sources"
    /\ ret # None
    /\ given.url = None
    /\ given.ubuntu_date = None
    /\ given.arch = Some("riscv64")
    /\ ret[1].sources = << LatestReleaseSource("riscv64") >>

(***************************************************************************)
(* Paths under the cache root, as the segments joined to it.               *)
(***************************************************************************)
DotDot == <<46, 46>>

Dot == <<46>>

\* how deep below the cache root the segments lead, -1 once they have led
\* out of it
RECURSIVE DepthBelowRoot(_, _)
DepthBelowRoot(segments, depth) ==
    IF depth < 0 \/ segments = <<>> THEN depth
    ELSE DepthBelowRoot(Tail(segments),
                        CASE Head(segments) = DotDot -> depth - 1
                          [] Head(segments) = Dot -> depth
                          [] OTHER -> depth + 1)

\* C14 (as claimed): a blank name is rejected; any other name gives
\* <cache root>/<sanitized>/disk.img where the sanitized name has the
\* length of the name, keeps its characters of [A-Za-z0-9_.-] and has '_'
\* for every other, holds no '/', is not the segment "..", and the path
\* stays below the cache root.
C14_Claimed_PathInsideCacheRoot ==
    (callee = "image_disk_path" /\ ret # None) =>
       IF \A k \in 1..Len(given) : given[k] \in {9, 10, 11, 12, 13, 32}
       THEN ~ret[1].ok
       ELSE /\ ret[1].ok
            /\ Len(ret[1].path) = 3
            /\ ret[1].path[1] = "cache/krunclaw/images"
            /\ ret[1].path[3] = "disk.img"
            /\ LET safe == ret[1].path[2]
               IN  /\ Len(safe) = Len(given)
                   /\ \A k \in 1..Len(safe) :
                         /\ safe[k] \in (48..57) \cup (65..90) \cup (97..122) \cup {45, 46, 95}
                         /\ safe[k] = IF given[k] \in (48..57) \cup (65..90) \cup (97..122) \cup {45, 46, 95}
                                      THEN given[k] ELSE 95
                   /\ safe # DotDot
                   /\ DepthBelowRoot(<<safe>>, 0) >= 0

\* the positions of the additional pairs that differ from the gateway pair
KeptPublish ==
    {k \in 1..Len(given.additional_publish) :
        given.additional_publish[k] # <<given.gateway_port, given.gateway_port>>}

\* C15: the port map starts with the gateway pair, which occurs in it
\* once; after it come the additional pairs that differ from the gateway
\* pair, all of them and in the caller's order; gateway 18789 with
\* additional [(18789,18789),(8080,80)] gives [(18789,18789),(8080,80)].
C15_PortMapGatewayFirst ==
    (callee = "port_map" /\ ret # None) =>
       LET out == ret[1]
           gateway == <<given.gateway_port, given.gateway_port>>
       IN  /\ Len(out) = 1 + Cardinality(KeptPublish)
           /\ out[1] = gateway
           /\ {k \in 1..Len(out) : out[k] = gateway} = {1}
           /\ \A k \in KeptPublish :
                 out[1 + Cardinality({i \in KeptPublish : i <= k})] = given.additional_publish[k]
           /\ (/\ given.gateway_port = 18789
               /\ given.additional_publish = <<<<18789, 18789>>, <<8080, 80>>>>)
                 => out = <<<<18789, 18789>>, <<8080, 80>>>>

\* the example of the claim
C15_Witness ==
    /\ callee = "port_map"
    /\ given.gateway_port = 18789
    /\ given.additional_publish = <<<<18789, 18789>>, <<8080, 80>>>>
    /\ ret = Some(<<<<18789, 18789>>, <<8080, 80>>>>)

\* the file name of the path given to resolve_disk_format, "" when it has
\* none
GivenFileName ==
    IF given.disk_path = <<>> \/ given.disk_path[Len(given.disk_path)] = DotDot
    THEN <<>>
    ELSE given.disk_path[Len(given.disk_path)]

\* its extension: from the last '.' on, "" when there is no '.'
GivenExtension ==
    LET dots == {k \in 1..Len(GivenFileName) : GivenFileName[k] = 46}
    IN  IF dots = {} THEN <<>>
        ELSE SubSeq(GivenFileName, CHOOSE k \in dots : \A j \in dots : j <= k, Len(GivenFileName))

\* the format the auto rule gives an extension
FormatOfExtension(extension) ==
    CASE extension \in {<<46, 113, 99, 111, 119, 50>>, <<46, 105, 109, 103>>} -> [ok |-> TRUE, format |-> "Qcow2"]
      [] extension = <<46, 118, 109, 100, 107>> -> [ok |-> TRUE, format |-> "Vmdk"]
      [] extension = <<46, 114, 97, 119>> -> [ok |-> TRUE, format |-> "Raw"]
      [] OTHER -> [ok |-> FALSE, format |-> "cannot auto-detect disk format"]

\* C16 (as claimed): an explicit format is returned as it is; with auto
\* the extension of the file name decides: .qcow2 and .img give qcow2,
\* .vmdk gives vmdk, .raw gives raw, any other or no extension is the
\* error.
C16_Claimed_ExactExtension ==
    (callee = "resolve_disk_format" /\ ret # None) =>
       IF given.format # "Auto"
       THEN ret[1] = [ok |-> TRUE, format |-> given.format]
       ELSE ret[1] = FormatOfExtension(GivenExtension)

\* C16 (amended): the same, the extension being compared without regard
\* to the case of its ASCII letters.
C16_ExtensionIgnoringCase ==
    (callee = "resolve_disk_format" /\ ret # None) =>
       IF given.format # "Auto"
       THEN ret[1] = [ok |-> TRUE, format |-> given.format]
       ELSE ret[1] = FormatOfExtension([k \in 1..Len(GivenExtension) |->
                                           IF GivenExtension[k] \in 65..90
                                           THEN GivenExtension[k] + 32
                                           ELSE GivenExtension[k]])

\* auto on "d.qcow2/a.IMG" gave qcow2
C16_Witness ==
    /\ callee = "resolve_disk_format"
    /\ given.format = "Auto"
    /\ given.disk_path = <<<<100, 46, 113, 99, 111, 119, 50>>, <<97, 46, 73, 77, 71>>>>
    /\ ret = Some([ok |-> TRUE, format |-> "Qcow2"])

\* the number a string of decimal digits writes
RECURSIVE DecimalValue(_)
DecimalValue(text) ==
    IF text = <<>> THEN 0
    ELSE (Head(text) - 48) * 10 ^ (Len(text) - 1) + DecimalValue(Tail(text))

\* the text writes an integer of 0..65535: decimal digits, with or without
\* a '+' before them
IsPortText(text) ==
    LET digits == IF text # <<>> /\ Head(text) = 43 THEN Tail(text) ELSE text
    IN  /\ digits # <<>>
        /\ \A k \in 1..Len(digits) : digits[k] \in 48..57
        /\ DecimalValue(digits) <= 65535

PortOfText(text) ==
    DecimalValue(IF Head(text) = 43 THEN Tail(text) ELSE text)

\* C17: a string with no ':' or with more than one fails with "invalid
\* publish format"; with exactly one, a part before or after it that does
\* not write an integer of 0..65535 fails with the parse error of that
\* part; otherwise the two integers are returned as host and guest port.
C17_ParsePublish ==
    (callee = "parse_publish" /\ ret # None) =>
       LET colons == {k \in 1..Len(given) : given[k] = 58}
           colon == CHOOSE k \in colons : TRUE
           host == SubSeq(given, 1, colon - 1)
           guest == SubSeq(given, colon + 1, Len(given))
       IN  IF Cardinality(colons) # 1
           THEN ~ret[1].ok /\ ret[1].kind = "invalid publish format"
           ELSE IF ~IsPortText(host)
           THEN ~ret[1].ok /\ ret[1].kind = "invalid host port"
           ELSE IF ~IsPortText(guest)
           THEN ~ret[1].ok /\ ret[1].kind = "invalid guest port"
           ELSE /\ ret[1].ok
                /\ ret[1].host_port = PortOfText(host)
                /\ ret[1].guest_port = PortOfText(guest)
                /\ ret[1].host_port \in 0..65535
                /\ ret[1].guest_port \in 0..65535

\* "18793:65535" parsed
C17_Witness ==
    /\ callee = "parse_publish"
    /\ given = <<49, 56, 55, 57, 51, 58, 54, 53, 53, 51, 53>>
    /\ ret # None
    /\ ret[1].ok
    /\ ret[1].host_port = 18793
    /\ ret[1].guest_port = 65535

\* the fetch under way, or the last one, was given no explicit URL
NoExplicitUrl == FetchCalled /\ config.url = None

\* C18: x86_64 and amd64 map to amd64, aarch64 and arm64 to arm64, riscv64
\* to riscv64, arm and armv7l to armhf, s390x to s390x, powerpc64le and
\* ppc64le to ppc64el: a fetch without explicit URL for one of them
\* resolves sources whose latest or dated release URL carries that suffix
\* and never fails as unsupported.  For any other identifier such a fetch
\* resolves no source and starts no download, and once past the existence
\* check and the directory creation it returns the
\* unsupported-architecture error.
C18_ArchMapping ==
    NoExplicitUrl =>
       LET arch == ResolvedArch(config)
       IN  IF arch \in DOMAIN DocumentedSuffix
           THEN /\ fetchResult.kind # "unsupported_arch"
                /\ fetchPc \in {"remove_stale", "download", "verify", "publish"} =>
                      /\ sources # <<>>
                      /\ LET url == sources[Len(sources)].url
                         IN  url[Len(url) - 1] = DocumentedSuffix[arch]
           ELSE /\ sources = <<>>
                /\ downloads = <<>>
                /\ fetchPc \in {"create_dir", "resolve", "returned"}
                /\ fetchPc = "returned" =>
                      /\ ~fetchResult.ok
                      /\ fetchResult.kind \in {"empty_image", "already_exists",
                                               "create_dir_failed", "unsupported_arch"}
                      /\ (TargetResolves /\ fsDir /\ (entryFs.disk = None \/ config.force)) =>
                            fetchResult.kind = "unsupported_arch"

\* a fetch for "mips" failed as unsupported, with no download
C18_Witness ==
    /\ fetchPc = "returned"
    /\ config.url = None
    /\ config.arch = Some("mips")
    /\ fetchResult.kind = "unsupported_arch"
    /\ downloads = <<>>

\* C19: when ensure_image has returned, for an identity that resolves to a
\* path: the result is Ok when the artifact is at the path and the
\* "missing" error with the fetch remediation when it is not; no download
\* was started and the directory, the artifact and the temporary file are
\* as they were when it was called.
C19_EnsureOnlyInspects ==
    fetchPc = "ensured" =>
       /\ Fs = entryFs
       /\ downloads = <<>>
       /\ TargetResolves =>
             IF fsDisk # None
             THEN fetchResult.ok
             ELSE fetchResult = Err("missing", "krunclaw image fetch --image", 0)

\* ensure_image found no artifact and no cache directory, and left it so
C19_Witness ==
    /\ fetchPc = "ensured"
    /\ TargetResolves
    /\ fetchResult.kind = "missing"
    /\ ~fsDir
    /\ fsDisk = None

(***************************************************************************)
(* C20: failures of parsing and of building come before the library.       *)
(***************************************************************************)
\* the text writes two ports separated by one ':'
IsPublishText(text) ==
    LET colons == {k \in 1..Len(text) : text[k] = 58}
        colon == CHOOSE k \in colons : TRUE
    IN  /\ Cardinality(colons) = 1
        /\ IsPortText(SubSeq(text, 1, colon - 1))
        /\ IsPortText(SubSeq(text, colon + 1, Len(text)))

\* the --disk-format token is one of the five, in any case of letters
IsDiskFormatToken(text) ==
    [k \in 1..Len(text) |-> IF text[k] \in 65..90 THEN text[k] + 32 ELSE text[k]]
        \in {<<97, 117, 116, 111>>, <<114, 97, 119>>, <<113, 99, 111, 119, 50>>, <<113, 99, 111, 119>>, <<118, 109, 100, 107>>}

\* the file name of the disk image ends, in any case of letters, in one of
\* the four extensions the auto rule knows
AutoResolvable(path) ==
    LET name == path[Len(path)]
        lowered == [k \in 1..Len(name) |-> IF name[k] \in 65..90 THEN name[k] + 32 ELSE name[k]]
    IN  \E extension \in {<<46, 113, 99, 111, 119, 50>>, <<46, 105, 109, 103>>, <<46, 118, 109, 100, 107>>, <<46, 114, 97, 119>>} :
           /\ Len(lowered) >= Len(extension)
           /\ SubSeq(lowered, Len(lowered) - Len(extension) + 1, Len(lowered)) = extension

\* the command line does not parse
ParseFailure ==
    \/ \E k \in 1..Len(cli.publish) : ~IsPublishText(cli.publish[k])
    \/ ~IsDiskFormatToken(cli.disk_format)

\* the RunSpec cannot be built
BuildFailure ==
    \/ ~rootExists
    \/ ~onHost.workspace_exists
    \/ onHost.state_dir = "uncreatable"
    \/ /\ to_ascii_lowercase(cli.disk_format) = <<97, 117, 116, 111>>
       /\ ~AutoResolvable(cli.disk_image)

ParseFailureKinds ==
    {"invalid publish format", "invalid host port", "invalid guest port",
     "unsupported disk format"}

BuildFailureKinds ==
    {"disk image path does not exist", "workspace path does not exist",
     "failed to create state dir", "cannot auto-detect disk format"}

\* nothing of the native library has been touched: its symbols are not
\* resolved, no native call is made, no context is created
LibraryUntouched == fns = NoFns /\ calls = <<>> /\ ctx_id = 0

\* C20: a run whose command line does not parse, or whose RunSpec cannot
\* be built, returns that failure, and it does so before the library is
\* loaded and before a context is created: no native call is made in it.
\* Until the RunSpec is built the library is not touched at all.
C20_FailuresBeforeLibrary ==
    /\ pc \in {"parse", "build"} => LibraryUntouched
    /\ (pc \notin {"idle", "parse"} /\ ParseFailure) =>
          /\ pc = "returned"
          /\ result.kind \in ParseFailureKinds
          /\ LibraryUntouched
    /\ (pc \notin {"idle", "parse", "build"} /\ BuildFailure) =>
          /\ pc = "returned"
          /\ result.kind \in ParseFailureKinds \cup BuildFailureKinds
          /\ LibraryUntouched
    /\ result.kind \in ParseFailureKinds \cup BuildFailureKinds =>
          /\ pc = "returned"
          /\ ParseFailure \/ BuildFailure
          /\ LibraryUntouched

\* the format of "a.bin" could not be detected, on a host whose library
\* has every symbol: the state directory was made, the library not touched
C20_Witness ==
    /\ pc = "returned"
    /\ result.kind = "cannot auto-detect disk format"
    /\ onHost.state_dir = "present"
    /\ lib = AllSymbols
    /\ LibraryUntouched

(***************************************************************************)
(* C21: interior NUL bytes in the strings of a RunSpec.                    *)
(***************************************************************************)
\* the strings run turns into C strings inside its closure, in the order
\* it does so, each with the name its error carries, and the place in the
\* launch protocol of the native call that takes it
FieldChecks(s) ==
    LET roots == Len(ExpectedRootCalls(s))
        mounts == Len(s.virtiofs_mounts)
        opt(o) == IF o = None THEN <<>> ELSE <<o[1]>>
    IN  (IF s.root.kind = "VirtioFs"
         THEN << [field |-> "rootfs", strings |-> <<s.root.rootfs>>, pos |-> 3] >>
         ELSE << [field |-> "disk path", strings |-> <<s.root.disk_path>>, pos |-> 3],
                 [field |-> "root device", strings |-> <<s.root.root_device>>, pos |-> 4],
                 [field |-> "root fstype", strings |-> opt(s.root.root_fstype), pos |-> 4],
                 [field |-> "root options", strings |-> opt(s.root.root_options), pos |-> 4] >>)
        \o [k \in 1..(2 * mounts) |->
              [field |-> IF k % 2 = 1 THEN "virtiofs tag" ELSE "virtiofs path",
               strings |-> <<s.virtiofs_mounts[(k + 1) \div 2][2 - (k % 2)]>>,
               pos |-> 2 + roots + ((k + 1) \div 2)]]
        \o << [field |-> "workdir", strings |-> <<s.exec.workdir>>, pos |-> 4 + roots + mounts],
              [field |-> "exec path", strings |-> <<s.exec.exec_path>>, pos |-> 5 + roots + mounts],
              [field |-> "argv", strings |-> s.exec.argv, pos |-> 5 + roots + mounts],
              [field |-> "env", strings |-> s.exec.env, pos |-> 5 + roots + mounts] >>

HasNul(check) == \E k \in 1..Len(check.strings) : ~CStringNew(check.strings[k])

\* the checks of the RunSpec under way that find a NUL byte
Offending == SelectSeq(FieldChecks(spec), HasNul)

\* no string a native call was given holds a NUL byte
NullFreeCall(c) ==
    LET str(o) == o = None \/ CStringNew(o[1])
        array(a) == \A k \in 1..Len(a) : str(a[k])
    IN  CASE c.name \in {"krun_set_root", "krun_set_workdir"} -> str(c.args[2])
          [] c.name = "krun_add_disk2" -> str(c.args[2]) /\ str(c.args[3])
          [] c.name = "krun_set_root_disk_remount" ->
                str(c.args[2]) /\ str(c.args[3]) /\ str(c.args[4])
          [] c.name = "krun_add_virtiofs" -> str(c.args[2]) /\ str(c.args[3])
          [] c.name = "krun_set_port_map" -> array(c.args[2])
          [] c.name = "krun_set_exec" ->
                str(c.args[2]) /\ array(c.args[3]) /\ array(c.args[4])
          [] OTHER -> TRUE

\* a root path with a NUL byte does not exist for run: it returns the
\* error naming that path before any native call
RootPathNulRefused ==
    (pc \notin {"idle", "load", "run"} /\ ~CStringNew(RootPath(spec))) =>
       /\ pc = "returned"
       /\ calls = <<>>
       /\ \/ result.kind = "load_failed"
          \/ result = Err("path_missing",
                          IF spec.root.kind = "VirtioFs" THEN "rootfs" ELSE "disk image", 0)

\* a run that reached a string with a NUL byte, every call before it having
\* returned 0 and no capability missing, returns the error naming its field
NulReachedIsReported ==
    (pc = "returned" /\ Created /\ Offending # <<>>) =>
       /\ ~result.ok
       /\ (AllZero /\ result.kind # "missing_capability") =>
             result = Err("null_byte", Offending[1].field, 0)

\* C21 (as claimed): a string with an interior NUL byte is found before
\* the native call that takes it: no call is given such a string, that call
\* and all later calls are not made, and the error names the field.
C21_Claimed_NoLaterCall ==
    /\ \A k \in 1..Len(calls) : NullFreeCall(calls[k])
    /\ RootPathNulRefused
    /\ NulReachedIsReported
    /\ result.kind = "null_byte" =>
          /\ Offending # <<>>
          /\ result.what = Offending[1].field
          /\ Len(calls) = Offending[1].pos - 1

\* C21 (amended): the same, the call that takes the string and all later
\* configuration and start calls being the ones not made: krun_free_ctx
\* alone follows the calls made before the string was found.
C21_NullByteBeforeCall ==
    /\ \A k \in 1..Len(calls) : NullFreeCall(calls[k])
    /\ RootPathNulRefused
    /\ NulReachedIsReported
    /\ result.kind = "null_byte" =>
          /\ Offending # <<>>
          /\ result.what = Offending[1].field
          /\ pc \in {"free_ctx", "returned"}
          /\ Len(BeforeFree) = Offending[1].pos - 1
          /\ \A k \in 1..Len(BeforeFree) : calls[k].rc = 0 \/ calls[k].name = "krun_create_ctx"
          /\ \A k \in Offending[1].pos..Len(calls) : calls[k].name = "krun_free_ctx"

\* the path of the second mount held a NUL byte: the first mount was made,
\* the second was not, and the context was released
C21_Witness ==
    /\ pc = "returned"
    /\ result = Err("null_byte", "virtiofs path", 0)
    /\ Len(spec.virtiofs_mounts) = 2
    /\ Cardinality({k \in 1..Len(calls) : calls[k].name = "krun_add_virtiofs"}) = 1
    /\ calls[Len(calls)].name = "krun_free_ctx"

(***************************************************************************)
(* C22: the sources of a fetch are tried one after the other.              *)
(***************************************************************************)
\* the URLs of the candidate sources, in their order
SourceUrls == [k \in 1..Len(sources) |-> sources[k].url]

\* C22: the sources are requested in the order of the list, one at a time:
\* a source is requested only when the one before it has failed; while a
\* downloaded file is verified and published, and after the fetch has
\* returned, no source is requested; and a fetch in which every source
\* failed returns the error that lists the URLs of all of them in order,
\* with the error of the last one.
C22_SourcesInOrder ==
    /\ [](FetchCalled =>
            /\ Len(downloads) <= Len(sources)
            /\ downloads = SubSeq(SourceUrls, 1, Len(downloads))
            /\ (fetchPc = "download" /\ downloads # <<>>) =>
                  lastErr = Some(downloads[Len(downloads)])
            /\ (fetchPc = "returned" /\ fetchResult.ok) =>
                  /\ downloads # <<>>
                  /\ fsDisk = Some(ServedFile(sources[Len(downloads)]))
                       \/ sources[Len(downloads)].sha256 = None
            /\ (fetchPc = "returned" /\ Len(downloads) = Len(sources) /\ sources # <<>>
                  /\ lastErr = Some(sources[Len(sources)].url)) =>
                  fetchResult.kind = "all_sources_failed"
            /\ fetchResult.kind = "all_sources_failed" =>
                  /\ fetchPc = "returned"
                  /\ downloads = SourceUrls
                  /\ report = Some([attempted |-> downloads,
                                    last_error |-> downloads[Len(downloads)]]))
    /\ [][(Len(downloads') > Len(downloads)) =>
            /\ fetchPc = "download"
            /\ downloads' = Append(downloads, sources[Len(downloads) + 1].url)
            /\ downloads = <<>> \/ lastErr = Some(downloads[Len(downloads)])]_vars
    /\ [][(fetchPc \in {"verify", "publish", "returned"}) =>
            (downloads' = downloads \/ (fetchPc = "returned" /\ downloads' = <<>>))]_vars

\* both sources of the default amd64 list failed, and the fetch returned
\* the error listing the two
C22_Witness ==
    /\ fetchPc = "returned"
    /\ fetchResult.kind = "all_sources_failed"
    /\ Len(downloads) = 2
    /\ report # None
    /\ Len(report[1].attempted) = 2

(***************************************************************************)
(* C23: transfers of one URL within a fetch.                               *)
(***************************************************************************)
\* C23 (as claimed): within one fetch no URL is requested twice: a failed
\* transfer is not made again from the same URL, the next source is.
C23_Claimed_NoRetrySameUrl ==
    FetchCalled =>
       \A j, k \in 1..Len(requests) : requests[j] = requests[k] => j = k

(***************************************************************************)
(* C24 and C30: the version probe and the doctor.                          *)
(***************************************************************************)
\* the library detect_libkrun_version probes: the one LIBKRUN_PATH names
\* when it is set and opens; without LIBKRUN_PATH, the first built-in name
\* that opens
ProbedLibrary ==
    IF envPath # None
    THEN world[envPath[1]]
    ELSE LET opening == {k \in 1..4 : world[BuiltinNames[k]] # None}
         IN  IF opening = {} THEN None
             ELSE world[BuiltinNames[CHOOSE k \in opening : \A j \in opening : k <= j]]

\* C24: the probe needs a library that opens and its version accessor, and
\* nothing else: whatever launch symbols the probed library lacks, the
\* probe succeeds when the library exports the accessor, and fails only
\* when no library opens or the accessor is missing; it returns the
\* accessor's string (bytes that are no UTF-8 replaced by U+FFFD), and
\* "unknown" when the accessor returns the null pointer.
C24_VersionProbe ==
    detectPc = "returned" =>
       /\ detected.ok <=> (ProbedLibrary # None /\ "krun_get_version" \in ProbedLibrary[1])
       /\ (detected.ok /\ accessor = None) => detected.version = <<117, 110, 107, 110, 111, 119, 110>>
       /\ (detected.ok /\ accessor # None) =>
             /\ Len(detected.version) = Len(accessor[1])
             /\ \A k \in 1..Len(accessor[1]) :
                   detected.version[k] = (IF accessor[1][k] \in 0..127
                                          THEN accessor[1][k] ELSE 65533)
       /\ (ProbedLibrary # None /\ ~load_symbols(ProbedLibrary[1]).ok
             /\ "krun_get_version" \in ProbedLibrary[1]) => detected.ok

\* the library at LIBKRUN_PATH has the accessor and no launch symbol: load
\* failed on its symbols and the probe returned "1.9"
C24_Witness ==
    /\ detectPc = "returned"
    /\ envPath = Some(CustomPath)
    /\ world[CustomPath] = Some(VersionOnlyLib)
    /\ ~loaded.ok
    /\ detected.ok
    /\ detected.version = <<49, 46, 57>>

(***************************************************************************)
(* C25, C26, C27: the files of a fetch.                                    *)
(***************************************************************************)
\* C25 (as claimed): the sources are resolved before the destination
\* directory is created: a fetch that fails in the resolution (unsupported
\* architecture) leaves the directory and the files as it found them.
C25_Claimed_ResolveBeforeDir ==
    (FetchCalled /\ fetchPc = "returned" /\ fetchResult.kind = "unsupported_arch") =>
       Fs = entryFs

\* the fetch under way, or the last one, passed the already-exists check
PassedExistsCheck ==
    /\ FetchCalled
    /\ ~(fetchPc = "returned" /\ fetchResult.kind \in {"empty_image", "already_exists"})

\* C26 (as claimed): a fetch that passes the already-exists check removes
\* the temporary file it finds, and does so before its first download;
\* what an interrupted fetch left is never published.
C26_Claimed_EveryFetchRemoves ==
    /\ [](fsDisk # Some(StaleTmp))
    /\ []((PassedExistsCheck /\ fetchPc = "returned" /\ entryFs.tmp = Some(StaleTmp)) =>
             fsTmp # Some(StaleTmp))
    /\ [][(downloads = <<>> /\ downloads' # <<>>) => fsTmp = None]_vars

\* C26 (amended): a fetch that passes the already-exists check and makes a
\* download attempt has removed the temporary file it found before its
\* first download; what an interrupted fetch left is never published.
C26_StaleRemovedBeforeDownload ==
    /\ [](fsDisk # Some(StaleTmp))
    /\ []((PassedExistsCheck /\ downloads # <<>>) => fsTmp # Some(StaleTmp))
    /\ [][(downloads = <<>> /\ downloads' # <<>>) => fsTmp = None]_vars

\* a fetch that found what an interrupted fetch left published a download
C26_Witness ==
    /\ fetchPc = "returned"
    /\ fetchResult.ok
    /\ entryFs.tmp = Some(StaleTmp)
    /\ fsTmp = None
    /\ fsDisk # None
    /\ fsDisk[1].origin = "download"

\* a forced fetch over an artifact that was there is under way or was the
\* last call
ForcedOverExisting == FetchCalled /\ config.force /\ entryFs.disk # None

\* C27: in a forced fetch over an artifact, the artifact is as the fetch
\* found it until a source has been downloaded and, when it has a digest,
\* verified: it is removed or replaced only in the publication of that
\* download; and when every source failed the fetch returns its error with
\* the artifact as it found it.
C27_ForcedFetchKeepsArtifact ==
    /\ []((ForcedOverExisting /\ fetchPc \in {"create_dir", "resolve", "remove_stale",
                                              "download", "verify", "publish"}) =>
             fsDisk = entryFs.disk)
    /\ []((ForcedOverExisting /\ fetchPc = "returned"
             /\ fetchResult.kind \notin {"ok", "rename_failed"}) =>
             fsDisk = entryFs.disk)
    /\ []((ForcedOverExisting /\ fetchResult.kind = "all_sources_failed") =>
             /\ fsDisk = entryFs.disk
             /\ fsDisk # None)
    /\ [][(ForcedOverExisting /\ fetchPc # "returned" /\ fsDisk' # fsDisk) =>
             /\ fetchPc = "publish"
             /\ downloads # <<>>
             /\ fsTmp # None
             /\ fsTmp[1].origin = "download"
             /\ fsTmp[1].complete
             /\ \/ sources[srcIdx].sha256 = None
                \/ eq_ignore_ascii_case(fsTmp[1].digest, sources[srcIdx].sha256[1])]_vars

\* every source of a forced fetch failed and the artifact is the old one
C27_Witness ==
    /\ ForcedOverExisting
    /\ fetchPc = "returned"
    /\ fetchResult.kind = "all_sources_failed"
    /\ Len(downloads) = 2
    /\ fsDisk = Some(OldImage)

(***************************************************************************)
(* C28: one context per run.                                               *)
(***************************************************************************)
CreateCalls == {k \in 1..Len(calls) : calls[k].name = "krun_create_ctx"}

\* C28: a run calls krun_create_ctx at most once; when it gave a handle,
\* every call between it and the release carries that handle, the run
\* returns, with an error or without, only after krun_free_ctx was called
\* exactly once on that handle, and nothing is called after the release.
C28_OneContextFreedLast ==
    /\ Cardinality(CreateCalls) <= 1
    /\ \A k \in CreateCalls : k = 1
    /\ Cardinality(FreeCalls) <= 1
    /\ \A k \in FreeCalls :
          /\ Created
          /\ calls[k].args = <<Handle>>
          /\ k = Len(calls)
          /\ pc = "returned"
    /\ \A k \in ConfigCalls : Created /\ calls[k].args[1] = Handle
    /\ (pc = "returned" /\ Created) =>
          /\ Cardinality(FreeCalls) = 1
          /\ calls[Len(calls)].name = "krun_free_ctx"
    /\ (pc = "returned" /\ ~Created) => FreeCalls = {}

\* krun_start_enter returned 0 on the handle 3, the context was released
\* and the run returned Ok
C28_Witness ==
    /\ pc = "returned"
    /\ result.ok
    /\ Created
    /\ Handle = 3
    /\ Len(calls) >= 2
    /\ calls[Len(calls) - 1] = [name |-> "krun_start_enter", args |-> <<3>>, rc |-> 0]
    /\ calls[Len(calls)].name = "krun_free_ctx"

(***************************************************************************)
(* C29: build_run_spec checks its paths before it makes the state          *)
(* directory.                                                              *)
(***************************************************************************)
\* C29: when the disk image or the workspace is missing, build_run_spec
\* fails with the error that names the missing path and its role, the disk
\* image first, and the state directory is as it was; the state directory
\* is made only by a build_run_spec that found both paths.
C29_PathsBeforeStateDir ==
    /\ [][(pc = "build" /\ ~rootExists) =>
            /\ pc' = "returned"
            /\ result'.kind = "disk image path does not exist"
            /\ result'.path = cli.disk_image
            /\ onHost' = onHost]_vars
    /\ [][(pc = "build" /\ rootExists /\ ~onHost.workspace_exists) =>
            /\ pc' = "returned"
            /\ result'.kind = "workspace path does not exist"
            /\ result'.path = cli.cwd
            /\ onHost' = onHost]_vars
    /\ [][(onHost' # onHost) =>
            /\ pc = "build"
            /\ rootExists
            /\ onHost.workspace_exists
            /\ onHost.state_dir = "absent"
            /\ onHost' = [onHost EXCEPT !.state_dir = "present"]]_vars

\* the disk image is there, the workspace is not: the error names the
\* workspace and the state directory was not made
C29_Witness ==
    /\ pc = "returned"
    /\ rootExists
    /\ result.kind = "workspace path does not exist"
    /\ onHost.state_dir = "absent"
    /\ calls = <<>>

(***************************************************************************)
(* C30: the doctor and the launch resolver.                                *)
(***************************************************************************)
\* every library that opens exports every required symbol and the version
\* accessor
EveryLibraryWhole ==
    \A name \in LibNames :
        world[name] # None =>
           (RequiredSet \subseteq world[name][1] /\ "krun_get_version" \in world[name][1])

\* C30 (as claimed): on a host whose libraries all export the required
\* symbols and the version accessor, and with the same LIBKRUN_PATH,
\* run_doctor reports libkrun_loadable exactly when LibKrun::load succeeds.
C30_Claimed_DoctorAgreesWithLoad ==
    (loadPc = "returned" /\ doctor # None /\ EveryLibraryWhole) =>
       (doctor[1].libkrun_loadable <=> loaded.ok)

====
